---- MODULE Spec2Model ----
(***************************************************************************)
(* Model of src/search_api/main.py: the stealth-escalation fetch           *)
(* (advanced_fetch), the /fetch endpoint that calls it, the                *)
(* /search-and-fetch endpoint that fans it out over the search results,    *)
(* and the cache in front of /search-api, /search-and-fetch,               *)
(* /deep-research and /crawl-site.                                         *)
(* One action is one uninterrupted piece of a coroutine: from a call or a  *)
(* resumed await to the next await, return or raise.                       *)
(* Spec follows one request to /fetch or /search-and-fetch fetch by fetch; *)
(* SpecCache follows one request to a cached endpoint while time passes;   *)
(* SpecOutage lets the cache store fail as well; SpecAny follows one       *)
(* request to any endpoint;                                                *)
(* SpecSingletons follows concurrent requests through the lazily built     *)
(* ranker and stealth client.                                              *)
(***************************************************************************)
EXTENDS Integers, Sequences, FiniteSets, TLC

VARIABLES run, endpoint, sf, cache, now, store_up, req, log,
          ranker, stealth_client, callers

vars == <<run, endpoint, sf, cache, now, store_up, req, log,
          ranker, stealth_client, callers>>

(***************************************************************************)
(* Bounds                                                                  *)
(***************************************************************************)
\* largest num_results a modelled /search-and-fetch request asks for
MaxTargets == 2

\* number of half hours the clock may advance
MaxTicks == 2

\* the most suggestions the search backend returns with one answer
MaxSuggestions == 12

\* number of requests that are served concurrently
MaxCallers == 3

(***************************************************************************)
(* Python values                                                           *)
(***************************************************************************)
\* None, and a dict without keys: both are falsy in `if protection_info:`
None == [k \in {} |-> TRUE]

\* str.lower() on the parameter spellings the model sends
Lower(s) ==
    CASE s = "OFF" -> "off"
      [] s = "Low" -> "low"
      [] s = "MEDIUM" -> "medium"
      [] s = "HIGH" -> "high"
      [] s = "Day" -> "day"
      [] OTHER -> s

valid_stealth_modes == {"off", "low", "medium", "high"}

\* StealthLevel(value): the enum member of that value, ValueError otherwise
StealthLevel(value) ==
    IF value \in valid_stealth_modes THEN value ELSE "ValueError"

\* stealth_mode query parameter values sent by the modelled callers
StealthModeInputs ==
    valid_stealth_modes \cup {"OFF", "Low", "MEDIUM", "HIGH", "max"}

\* url values: with scheme and host, without scheme, without host
UrlInputs == {"https://a.example/p", "a.example/p", "https:///p"}

\* urllib.parse.urlparse, the two components the code reads
urlparse(url) ==
    CASE url = "https://a.example/p" -> [scheme |-> "https", netloc |-> "a.example"]
      [] url = "https://b.example/q" -> [scheme |-> "https", netloc |-> "b.example"]
      [] url = "https:///p" -> [scheme |-> "https", netloc |-> ""]
      [] OTHER -> [scheme |-> "", netloc |-> ""]

(***************************************************************************)
(* Pages and the protection classifier                                     *)
(***************************************************************************)
\* page bodies a server may answer with
Bodies == {"article", "banner", "challenge_a", "challenge_b"}

\* antibot.detect_protection: the verdict is a function of the body alone
detect_protection(html) ==
    CASE html = "article" ->
            [is_protected |-> FALSE, is_blocked |-> FALSE,
             protections |-> {}, recommendation |-> "none"]
      [] html = "banner" ->
            [is_protected |-> TRUE, is_blocked |-> FALSE,
             protections |-> {"cloudflare"}, recommendation |-> "low"]
      [] OTHER ->
            [is_protected |-> TRUE, is_blocked |-> TRUE,
             protections |-> {"captcha"}, recommendation |-> "high"]

NoProtection == detect_protection("article")

\* what one awaited client.get produces: a response, or an exception
NoResponse == [kind |-> "none", html |-> "unset", status_code |-> 0, url |-> "unset"]

Failure(kind) == [NoResponse EXCEPT !.kind = kind]

Responses(bodies, codes, urls) ==
    [kind : {"response"}, html : bodies, status_code : codes, url : urls]

\* outcomes of a fetch in the single-request specification
FetchOutcomes ==
    Responses(Bodies, {200, 403}, {"https://a.example/p", "https://a.example/r"})
        \cup {Failure("RequestError")}

(***************************************************************************)
(* advanced_fetch                                                          *)
(***************************************************************************)
\* the locals of one call, its position, the fetches it has issued, and the
\* bodies it has passed to detect_protection
NoRun ==
    [pc |-> "idle", url |-> "unset", stealth_mode |-> "off", auto_bypass |-> FALSE,
     html |-> "unset", status_code |-> 0, final_url |-> "unset",
     fetch_method |-> "standard", protection_info |-> None,
     protection |-> NoProtection, fetches |-> <<>>, classified |-> <<>>,
     exc |-> [kind |-> "none", status_code |-> 0]]

\* await client.get(url, stealth_level=level): the call is suspended at `pc`
IssueFetch(r, via, level, pc) ==
    [r EXCEPT !.pc = pc,
              !.fetches = Append(@, [via |-> via, level |-> level,
                                     outcome |-> NoResponse])]

\* the awaited fetch has produced `outcome`
Resume(r, outcome) ==
    [r EXCEPT !.fetches[Len(r.fetches)].outcome = outcome]

Return(r) == [r EXCEPT !.pc = "returned"]

Raise(r, kind, status_code) ==
    [r EXCEPT !.pc = "raised", !.exc = [kind |-> kind, status_code |-> status_code]]

\* lines 66-71 and 78-93: up to the first await
AdvancedFetchCall(url, stealth_mode, auto_bypass) ==
    LET r == [NoRun EXCEPT !.url = url, !.stealth_mode = stealth_mode,
                           !.auto_bypass = auto_bypass]
    IN  IF stealth_mode # "off"
        THEN IF StealthLevel(Lower(stealth_mode)) = "ValueError"
             THEN Raise(r, "HTTPException", 503)
             ELSE IssueFetch(r, "stealth", StealthLevel(Lower(stealth_mode)),
                             "await_initial")
        ELSE IssueFetch(r, "httpx", "off", "await_initial")

\* variant: the high attempt is made even after medium got through
TryHighAfterBypass(r) ==
    IF r.protection.is_blocked /\ r.fetch_method \notin {"stealth_high"}
    THEN IssueFetch(r, "stealth", "high", "await_high")
    ELSE Return(r)

\* lines 130-134: the second escalation step
TryHigh(r) ==
    IF r.protection.is_blocked
       /\ r.fetch_method \notin {"stealth_high", "stealth_medium_auto"}
    THEN IssueFetch(r, "stealth", "high", "await_high")
    ELSE Return(r)

\* variant: only the standard fetch is escalated to medium
NeedsMediumStandardOnly(fetch_method) == fetch_method = "standard"

\* line 112: the methods from which the medium attempt is made
NeedsMedium(fetch_method) ==
    fetch_method = "standard" \/ fetch_method = "stealth_low"

\* lines 99-116: classify the first body and decide on escalation
CheckProtection(r) ==
    LET protection == detect_protection(r.html)
        r1 == [r EXCEPT !.protection = protection,
                        !.classified = Append(@, r.html),
                        !.protection_info =
                            [detected |-> TRUE,
                             is_blocked |-> protection.is_blocked,
                             protections |-> protection.protections,
                             recommendation |-> protection.recommendation]]
    IN  IF protection.is_protected
        THEN IF protection.is_blocked /\ r1.auto_bypass
             THEN IF NeedsMedium(r1.fetch_method)
                  THEN IssueFetch(r1, "stealth", "medium", "await_medium")
                  ELSE TryHigh(r1)
             ELSE Return(r1)
        ELSE Return([r EXCEPT !.protection = protection,
                              !.classified = Append(@, r.html)])

\* variant: the method name of a stealth fetch is never recorded
StealthMethodDropped(stealth_mode) == "standard"

\* line 75: the method name keeps the spelling of the parameter
StealthMethod(stealth_mode) == "stealth_" \o stealth_mode

\* variant: a failed first fetch is retried at high instead of raising
StealthFetchFailedEscalates(r) == IssueFetch(r, "stealth", "high", "await_high")

\* lines 76-77: any exception of the first stealth fetch
StealthFetchFailed(r) == Raise(r, "HTTPException", 503)

\* lines 71-77 and 93-97: the first fetch has completed
AdvancedFetchInitial(r0, outcome) ==
    LET r == Resume(r0, outcome)
    IN  IF r.stealth_mode # "off"
        THEN IF outcome.kind = "response"
             THEN CheckProtection(
                    [r EXCEPT !.html = outcome.html,
                              !.status_code = outcome.status_code,
                              !.final_url = outcome.url,
                              !.fetch_method = StealthMethod(r.stealth_mode)])
             ELSE StealthFetchFailed(r)
        ELSE IF outcome.kind # "response"
             THEN Raise(r, outcome.kind, 0)
             ELSE IF outcome.status_code >= 400
                  THEN Raise(r, "HTTPStatusError", outcome.status_code)
                  ELSE CheckProtection(
                         [r EXCEPT !.html = outcome.html,
                                   !.status_code = outcome.status_code,
                                   !.final_url = outcome.url])

\* variant: the escalated body is kept, protection_info is left as it was
KeepUnmarked(r, outcome, level) ==
    IF outcome.kind = "response"
    THEN IF ~ detect_protection(outcome.html).is_blocked
         THEN [r EXCEPT !.html = outcome.html,
                        !.status_code = outcome.status_code,
                        !.final_url = outcome.url,
                        !.fetch_method = "stealth_" \o level \o "_auto",
                        !.classified = Append(@, outcome.html)]
         ELSE [r EXCEPT !.classified = Append(@, outcome.html)]
    ELSE r

\* variant: the escalated body is kept whatever its verdict
KeepAlways(r, outcome, level) ==
    IF outcome.kind = "response"
    THEN [r EXCEPT !.html = outcome.html,
                   !.status_code = outcome.status_code,
                   !.final_url = outcome.url,
                   !.fetch_method = "stealth_" \o level \o "_auto",
                   !.protection_info =
                       ("bypassed" :> TRUE)
                       @@ ("bypass_method" :> ("stealth_" \o level))
                       @@ r.protection_info]
    ELSE r

\* lines 117-128 and 135-146: an escalation fetch has completed
KeepIfNotBlocked(r, outcome, level) ==
    IF outcome.kind = "response"
    THEN IF ~ detect_protection(outcome.html).is_blocked
         THEN [r EXCEPT !.html = outcome.html,
                        !.status_code = outcome.status_code,
                        !.final_url = outcome.url,
                        !.fetch_method = "stealth_" \o level \o "_auto",
                        !.classified = Append(@, outcome.html),
                        !.protection_info =
                            ("bypassed" :> TRUE)
                            @@ ("bypass_method" :> ("stealth_" \o level))
                            @@ r.protection_info]
         ELSE [r EXCEPT !.classified = Append(@, outcome.html)]
    ELSE r

\* variant: the medium body is kept without asking the classifier
AdvancedFetchMediumUnclassified(r, outcome) ==
    TryHigh(KeepAlways(Resume(r, outcome), outcome, "medium"))

\* lines 113-128: the medium attempt has completed
AdvancedFetchMedium(r, outcome) ==
    TryHigh(KeepIfNotBlocked(Resume(r, outcome), outcome, "medium"))

\* variant: the high attempt is repeated while the page stays blocked
AdvancedFetchHighRetry(r, outcome) ==
    TryHigh(KeepIfNotBlocked(Resume(r, outcome), outcome, "high"))

AdvancedFetchHigh(r, outcome) ==
    Return(KeepIfNotBlocked(Resume(r, outcome), outcome, "high"))

\* variant: the exception of an escalation fetch leaves the call
AdvancedFetchStepRaising(r, outcome) ==
    IF r.pc # "await_initial" /\ outcome.kind # "response"
    THEN Raise(Resume(r, outcome), outcome.kind, 0)
    ELSE CASE r.pc = "await_initial" -> AdvancedFetchInitial(r, outcome)
           [] r.pc = "await_medium" -> AdvancedFetchMedium(r, outcome)
           [] r.pc = "await_high" -> AdvancedFetchHigh(r, outcome)

\* one resumption of a suspended call
AdvancedFetchStep(r, outcome) ==
    CASE r.pc = "await_initial" -> AdvancedFetchInitial(r, outcome)
      [] r.pc = "await_medium" -> AdvancedFetchMedium(r, outcome)
      [] r.pc = "await_high" -> AdvancedFetchHigh(r, outcome)

Suspended(r) == r.pc \in {"await_initial", "await_medium", "await_high"}

(***************************************************************************)
(* GET /fetch                                                              *)
(***************************************************************************)
\* the request being served and the response sent for it
NoEndpoint ==
    [pc |-> "idle", status_code |-> 0, content |-> None]

\* lines 534-539: the except clauses around the whole handler body
FetchUrlExcept(exc) ==
    CASE exc.kind = "HTTPStatusError" ->
            [status_code |-> exc.status_code, detail |-> "Failed to fetch URL"]
      [] exc.kind = "RequestError" ->
            [status_code |-> 503, detail |-> "Cannot connect to URL"]
      [] OTHER ->
            [status_code |-> 500, detail |-> "Error processing content"]

FetchUrlError(e, exc) ==
    [e EXCEPT !.pc = "done",
              !.status_code = FetchUrlExcept(exc).status_code,
              !.content = [detail |-> FetchUrlExcept(exc).detail]]

\* lines 346-362 and 523-532: the result built from the returned dict
FetchUrlResult(r) ==
    LET result == [success |-> TRUE, url |-> r.final_url,
                   status_code |-> r.status_code,
                   fetch_method |-> r.fetch_method]
    IN  IF r.protection_info # None
        THEN ("protection_info" :> r.protection_info) @@ result
        ELSE result

\* lines 346-539 once advanced_fetch has returned or raised
FetchUrlFinish(e, r, extraction) ==
    IF r.pc = "raised"
    THEN FetchUrlError(e, r.exc)
    ELSE IF extraction = "raise"
         THEN FetchUrlError(e, [kind |-> "Exception", status_code |-> 0])
         ELSE [e EXCEPT !.pc = "done", !.status_code = 200,
                        !.content = FetchUrlResult(r)]

\* what the extraction engines do with a body
Extractions == {"trafilatura", "readability", "raise"}

\* lines 325-344: a request arrives; validation, then the call
FetchUrl ==
    /\ endpoint.pc = "idle"
    /\ sf.pc = "idle"
    /\ \E url \in UrlInputs, stealth_mode \in StealthModeInputs,
          auto_bypass \in BOOLEAN :
          LET parsed == urlparse(url)
          IN  IF parsed.scheme = "" \/ parsed.netloc = ""
              THEN /\ endpoint' = FetchUrlError(endpoint,
                                      [kind |-> "HTTPException", status_code |-> 400])
                   /\ run' = run
              ELSE IF Lower(stealth_mode) \notin valid_stealth_modes
                   THEN /\ endpoint' = FetchUrlError(endpoint,
                                      [kind |-> "HTTPException", status_code |-> 400])
                        /\ run' = run
                   ELSE /\ run' = AdvancedFetchCall(url, stealth_mode, auto_bypass)
                        /\ endpoint' = [endpoint EXCEPT !.pc = "awaiting"]
    /\ UNCHANGED <<sf, cache, now, store_up, req, log, ranker, stealth_client, callers>>

\* the /fetch request after its suspended fetch produced `outcome`
FetchUrlResumed(outcome, extraction) ==
    LET r == AdvancedFetchStep(run, outcome)
    IN  [run |-> r,
         endpoint |-> IF Suspended(r) THEN endpoint
                      ELSE FetchUrlFinish(endpoint, r, extraction)]

\* the first fetch of the /fetch request completes
InitialFetchCompletes ==
    /\ endpoint.pc = "awaiting"
    /\ run.pc = "await_initial"
    /\ \E outcome \in FetchOutcomes, extraction \in Extractions :
          /\ run' = FetchUrlResumed(outcome, extraction).run
          /\ endpoint' = FetchUrlResumed(outcome, extraction).endpoint
    /\ UNCHANGED <<sf, cache, now, store_up, req, log, ranker, stealth_client, callers>>

\* the escalation fetch at medium completes
MediumFetchCompletes ==
    /\ endpoint.pc = "awaiting"
    /\ run.pc = "await_medium"
    /\ \E outcome \in FetchOutcomes, extraction \in Extractions :
          /\ run' = FetchUrlResumed(outcome, extraction).run
          /\ endpoint' = FetchUrlResumed(outcome, extraction).endpoint
    /\ UNCHANGED <<sf, cache, now, store_up, req, log, ranker, stealth_client, callers>>

\* the escalation fetch at high completes
HighFetchCompletes ==
    /\ endpoint.pc = "awaiting"
    /\ run.pc = "await_high"
    /\ \E outcome \in FetchOutcomes, extraction \in Extractions :
          /\ run' = FetchUrlResumed(outcome, extraction).run
          /\ endpoint' = FetchUrlResumed(outcome, extraction).endpoint
    /\ UNCHANGED <<sf, cache, now, store_up, req, log, ranker, stealth_client, callers>>

(***************************************************************************)
(* The cache                                                               *)
(***************************************************************************)
\* diskcache.Cache as a mapping: key -> [value, expire_time]; `now` is the
\* clock (time.time()) in seconds
EmptyCache == [k \in {} |-> None]

\* cache.get(key): the value when the key is stored and its expire_time is
\* still ahead, else the default None
CacheGet(c, key) ==
    IF key \in DOMAIN c /\ c[key].expire_time > now THEN c[key].value ELSE None

\* cache.set(key, value, expire=...): the entry expires `expire` seconds on
CacheSet(c, key, value, expire) ==
    (key :> [value |-> value, expire_time |-> now + expire]) @@ c

(***************************************************************************)
(* GET /search-and-fetch                                                   *)
(***************************************************************************)
\* Optional[str] query parameters
Absent == [some |-> FALSE, v |-> ""]

Some(v) == [some |-> TRUE, v |-> v]

\* str() as the f-strings apply it
StrOpt(o) == IF o.some THEN o.v ELSE "None"

StrBool(b) == IF b THEN "True" ELSE "False"

\* stealth_mode values of the modelled /search-and-fetch requests
SFStealthModes == {"off", "low", "max"}

\* the modelled /search-and-fetch requests
SFRequests ==
    [query : {"q"}, num_results : 1 .. MaxTargets,
     categories : {Some("general")}, language : {Some("en")},
     format : {"markdown"}, max_content_length : {100000},
     time_range : {Absent, Some("Day"), Some("decade")},
     rerank : BOOLEAN, stealth_mode : SFStealthModes, auto_bypass : BOOLEAN]

\* line 579
SFCacheKey(q) ==
    "search_fetch:" \o q.query \o ":" \o ToString(q.num_results) \o ":"
        \o StrOpt(q.categories) \o ":" \o StrOpt(q.language) \o ":"
        \o q.format \o ":" \o StrOpt(q.time_range) \o ":"
        \o StrBool(q.rerank) \o ":" \o q.stealth_mode

\* the results the search backend may return for the query
Hits ==
    { [title |-> "A", url |-> "https://a.example/p"],
      [title |-> "B", url |-> "a.example/p"],
      [title |-> "C", url |-> "https://b.example/q"] }

RECURSIVE Orderings(_)
\* the sequences that list every element of a set once
Orderings(S) ==
    IF S = {} THEN {<<>>}
    ELSE UNION { { <<x>> \o t : t \in Orderings(S \ {x}) } : x \in S }

SearchResultLists ==
    UNION { Orderings(S) : S \in { T \in SUBSET Hits : Cardinality(T) <= MaxTargets + 1 } }

\* outcomes of the search request: a result list, an error status, no connection
SearchOutcomes ==
    [kind : {"response"}, status_code : {200}, results : SearchResultLists,
     suggestions : {<<"s1">>}]
        \cup { [kind |-> "response", status_code |-> 500, results |-> <<>>,
                suggestions |-> <<>>],
               [kind |-> "RequestError", status_code |-> 0, results |-> <<>>,
                suggestions |-> <<>>] }

\* outcomes of a page fetch inside a fan-out
SFFetchOutcomes ==
    Responses({"article", "challenge_a"}, {200}, {"https://a.example/p"})
        \cup {Failure("RequestError")}

\* variant: the list is not cut
TakeUncut(seq, n) == seq

\* all_results[:num_results]
Take(seq, n) == SubSeq(seq, 1, IF Len(seq) < n THEN Len(seq) ELSE n)

NoSF ==
    [pc |-> "idle", params |-> None, cache_key |-> "", top_results |-> <<>>,
     suggestions |-> <<>>,
     tasks |-> <<>>, completed |-> <<>>, status_code |-> 0, content |-> None,
     cache_writes |-> 0]

\* lines 811-816: the except clauses around the handler body
SearchAndFetchExcept(exc) ==
    CASE exc.kind = "HTTPStatusError" ->
            [status_code |-> exc.status_code, detail |-> "Search failed"]
      [] exc.kind = "RequestError" ->
            [status_code |-> 503, detail |-> "Cannot connect to SearXNG"]
      [] OTHER ->
            [status_code |-> 500, detail |-> "Internal error"]

SearchAndFetchError(s, exc) ==
    [s EXCEPT !.pc = "done",
              !.status_code = SearchAndFetchExcept(exc).status_code,
              !.content = [detail |-> SearchAndFetchExcept(exc).detail]]

\* lines 646-651 and 769-782: the entry of a target that failed
ErrorEntry(result, fetch_error) ==
    [search_result |-> result, fetch_status |-> "error",
     fetch_error |-> fetch_error, content |-> None]

\* lines 699-724 and 745-767: the entry of a fetched and extracted target
SuccessEntry(result, r, extraction) ==
    LET data == [search_result |-> [title |-> result.title, url |-> r.final_url],
                 fetch_status |-> "success",
                 fetch_method |-> r.fetch_method,
                 fetched_content |-> [content |-> r.html, engine |-> extraction]]
    IN  IF r.protection_info # None
        THEN ("protection_info" :> r.protection_info) @@ data
        ELSE data

\* a task of the fan-out: its target, its advanced_fetch call, its entry
Task(pc, result, r, extraction, entry) ==
    [pc |-> pc, result |-> result, run |-> r, extraction |-> extraction,
     entry |-> entry]

\* variant: only HTTPException is caught; other exceptions leave the task
FetchSingleUrlFinishNoCatch(result, r, extraction) ==
    IF r.pc = "raised"
    THEN IF r.exc.kind = "HTTPException"
         THEN Task("done", result, r, "none",
                   ErrorEntry(result, "Stealth fetch failed"))
         ELSE Task("raised", result, r, "none", None)
    ELSE IF extraction = "raise"
         THEN Task("raised", result, r, extraction, None)
         ELSE Task("done", result, r, extraction,
                   SuccessEntry(result, r, extraction))

\* lines 661-782 once advanced_fetch has returned or raised
FetchSingleUrlFinish(result, r, extraction) ==
    IF r.pc = "raised"
    THEN IF r.exc.kind = "HTTPException"
         THEN Task("done", result, r, "none",
                   ErrorEntry(result, "Stealth fetch failed"))
         ELSE Task("done", result, r, "none",
                   ErrorEntry(result, "Processing error"))
    ELSE IF extraction = "raise"
         THEN Task("done", result, r, extraction,
                   ErrorEntry(result, "Processing error"))
         ELSE Task("done", result, r, extraction,
                   SuccessEntry(result, r, extraction))

\* the task after a step of its advanced_fetch call
TaskOf(result, r, extraction) ==
    IF Suspended(r)
    THEN Task("await", result, r, "none", None)
    ELSE FetchSingleUrlFinish(result, r, extraction)

\* lines 639-659: fetch_single_url up to its first await
FetchSingleUrl(result, stealth_mode, auto_bypass) ==
    LET parsed == urlparse(result.url)
    IN  IF parsed.scheme = "" \/ parsed.netloc = ""
        THEN Task("done", result, NoRun, "none",
                  ErrorEntry(result, "Invalid URL format"))
        ELSE TaskOf(result, AdvancedFetchCall(result.url, stealth_mode, auto_bypass),
                    "raise")

\* variant: the entries are appended as the tasks complete
GatherByCompletion(s) ==
    [i \in 1 .. Len(s.completed) |-> s.tasks[s.completed[i]].entry]

\* line 786: asyncio.gather returns the entries by position of the awaitable
Gather(s) == [i \in 1 .. Len(s.tasks) |-> s.tasks[i].entry]

\* the failures taken as what is left of the requested number
FinalResponseFailedFromRequested(s, fetched_results) ==
    [query |-> s.params.query,
     num_results_requested |-> s.params.num_results,
     num_results_found |-> Len(s.top_results),
     successful_fetches |->
        Cardinality({i \in DOMAIN fetched_results :
                        fetched_results[i].fetch_status = "success"}),
     failed_fetches |->
        s.params.num_results
          - Cardinality({i \in DOMAIN fetched_results :
                            fetched_results[i].fetch_status = "success"}),
     fetch_options |-> [stealth_mode |-> s.params.stealth_mode,
                        auto_bypass |-> s.params.auto_bypass],
     results |-> fetched_results,
     suggestions |-> s.suggestions]

\* lines 788-804
FinalResponse(s, fetched_results) ==
    [query |-> s.params.query,
     num_results_requested |-> s.params.num_results,
     num_results_found |-> Len(s.top_results),
     successful_fetches |->
        Cardinality({i \in DOMAIN fetched_results :
                        fetched_results[i].fetch_status = "success"}),
     failed_fetches |->
        Cardinality({i \in DOMAIN fetched_results :
                        fetched_results[i].fetch_status = "error"}),
     fetch_options |-> [stealth_mode |-> s.params.stealth_mode,
                        auto_bypass |-> s.params.auto_bypass],
     results |-> fetched_results,
     suggestions |-> s.suggestions]

\* lines 631-636
NoResultsResponse(s) ==
    [query |-> s.params.query, num_results_found |-> 0, results |-> <<>>,
     message |-> "No search results found"]

valid_ranges == {"day", "week", "month", "year"}

\* the order the ranker may give to a result list
Rerankings(all_results) ==
    { [i \in 1 .. Len(all_results) |-> all_results[o[i]]] :
        o \in Orderings(1 .. Len(all_results)) }

\* a response stored by an earlier request, and the request that stored it
PriorRequest ==
    [query |-> "q", num_results |-> 1, categories |-> Some("general"),
     language |-> Some("en"), format |-> "markdown", max_content_length |-> 100000,
     time_range |-> Absent, rerank |-> FALSE, stealth_mode |-> "off",
     auto_bypass |-> FALSE]

PriorResponse ==
    [query |-> "q", num_results_requested |-> 1, num_results_found |-> 1,
     successful_fetches |-> 0, failed_fetches |-> 1,
     fetch_options |-> [stealth_mode |-> "off", auto_bypass |-> FALSE],
     results |-> << ErrorEntry([title |-> "B", url |-> "a.example/p"],
                               "Invalid URL format") >>,
     suggestions |-> <<"s1">>]

InitCaches ==
    { EmptyCache, CacheSet(EmptyCache, SFCacheKey(PriorRequest), PriorResponse, 3600) }

\* lines 578-608: a request arrives; cache lookup, validation, the search call
SearchAndFetch ==
    /\ sf.pc = "idle"
    /\ endpoint.pc = "idle"
    /\ \E q \in SFRequests :
          LET cache_key == SFCacheKey(q)
              cached_result == CacheGet(cache, cache_key)
              s == [sf EXCEPT !.params = q, !.cache_key = cache_key]
          IN  IF cached_result # None
              THEN sf' = [s EXCEPT !.pc = "done", !.status_code = 200,
                                   !.content = cached_result]
              ELSE IF q.time_range.some /\ q.time_range.v # ""
                      /\ Lower(q.time_range.v) \notin valid_ranges
                   THEN sf' = SearchAndFetchError(s,
                                 [kind |-> "HTTPException", status_code |-> 400])
                   ELSE sf' = [s EXCEPT !.pc = "searching"]
    /\ UNCHANGED <<run, endpoint, cache, now, store_up, req, log, ranker, stealth_client, callers>>

\* lines 608-636 and 784-786: the search answers; the fetch tasks are started
SearchCompletes ==
    /\ sf.pc = "searching"
    /\ \E outcome \in SearchOutcomes :
          IF outcome.kind # "response"
          THEN sf' = SearchAndFetchError(sf, [kind |-> outcome.kind, status_code |-> 0])
          ELSE IF outcome.status_code >= 400
          THEN sf' = SearchAndFetchError(sf,
                        [kind |-> "HTTPStatusError",
                         status_code |-> outcome.status_code])
          ELSE \E all_results \in
                    IF sf.params.rerank /\ outcome.results # <<>>
                    THEN Rerankings(outcome.results)
                    ELSE {outcome.results} :
                  LET top_results == Take(all_results, sf.params.num_results)
                      tasks == [i \in 1 .. Len(top_results) |->
                                   FetchSingleUrl(top_results[i],
                                                  sf.params.stealth_mode,
                                                  sf.params.auto_bypass)]
                      s == [sf EXCEPT !.top_results = top_results,
                                      !.suggestions = outcome.suggestions]
                  IN  IF top_results = <<>>
                      THEN sf' = [s EXCEPT !.pc = "done", !.status_code = 200,
                                           !.content = NoResultsResponse(s)]
                      ELSE sf' = [s EXCEPT
                                    !.pc = "gathering",
                                    !.tasks = tasks,
                                    !.completed =
                                        SelectSeq([i \in 1 .. Len(tasks) |-> i],
                                                  LAMBDA i : tasks[i].pc = "done")]
    /\ UNCHANGED <<run, endpoint, cache, now, store_up, req, log, ranker, stealth_client, callers>>

\* a suspended fetch of one task completes; the task runs to its next await
TaskFetchCompletes ==
    /\ sf.pc = "gathering"
    /\ \E i \in 1 .. Len(sf.tasks) :
          /\ sf.tasks[i].pc = "await"
          /\ \E outcome \in SFFetchOutcomes, extraction \in Extractions :
                LET task == TaskOf(sf.tasks[i].result,
                                   AdvancedFetchStep(sf.tasks[i].run, outcome),
                                   extraction)
                IN  sf' = [sf EXCEPT
                             !.tasks[i] = task,
                             !.completed = IF task.pc = "done"
                                           THEN Append(@, i) ELSE @]
    /\ UNCHANGED <<run, endpoint, cache, now, store_up, req, log, ranker, stealth_client, callers>>

\* variant: the response is stored only when a page was fetched
GatherReturnsCachingFetched ==
    /\ sf.pc = "gathering"
    /\ \A i \in 1 .. Len(sf.tasks) : sf.tasks[i].pc = "done"
    /\ LET final_response == FinalResponse(sf, Gather(sf))
       IN  IF final_response.successful_fetches > 0
           THEN /\ cache' = CacheSet(cache, sf.cache_key, final_response, 3600)
                /\ sf' = [sf EXCEPT !.pc = "done", !.status_code = 200,
                                    !.content = final_response,
                                    !.cache_writes = @ + 1]
           ELSE /\ cache' = cache
                /\ sf' = [sf EXCEPT !.pc = "done", !.status_code = 200,
                                    !.content = final_response]
    /\ UNCHANGED <<run, endpoint, now, store_up, req, log, ranker, stealth_client, callers>>

\* lines 786-816: gather hands back the entries, or the exception of a task;
\* the response is built, cached and sent
GatherReturns ==
    /\ sf.pc = "gathering"
    /\ \/ \E i \in 1 .. Len(sf.tasks) : sf.tasks[i].pc = "raised"
       \/ \A i \in 1 .. Len(sf.tasks) : sf.tasks[i].pc = "done"
    /\ IF \E i \in 1 .. Len(sf.tasks) : sf.tasks[i].pc = "raised"
       THEN /\ sf' = SearchAndFetchError(sf, [kind |-> "Exception", status_code |-> 0])
            /\ cache' = cache
       ELSE LET final_response == FinalResponse(sf, Gather(sf))
            IN  /\ cache' = CacheSet(cache, sf.cache_key, final_response, 3600)
                /\ sf' = [sf EXCEPT !.pc = "done", !.status_code = 200,
                                    !.content = final_response,
                                    !.cache_writes = @ + 1]
    /\ UNCHANGED <<run, endpoint, now, store_up, req, log, ranker, stealth_client, callers>>

(***************************************************************************)
(* The cached endpoints over time: /search-api, /search-and-fetch,         *)
(* /deep-research and /crawl-site, one request against a cache that is     *)
(* cold or holds what earlier requests stored.  The fan-out of             *)
(* /search-and-fetch is one step here: the entries it ends with.           *)
(***************************************************************************)
\* the request in flight: its endpoint, parameters and key, when it looked
\* its key up and when that key had last been stored (-1: never), and what
\* it has done so far (lookups, backend calls, fetches and crawls started,
\* cache writes)
NoReq ==
    [pc |-> "idle", op |-> "", params |-> None, cache_key |-> "",
     at |-> 0, written_at |-> -1, lookups |-> 0, hit |-> FALSE, work |-> 0, cache_writes |-> 0,
     cache_failed |-> FALSE, calls |-> <<>>, status_code |-> 0,
     content |-> None]

\* who stored each cache entry, and when: key -> [op, params, at, expire]
NoLog == [k \in {} |-> None]

Logged(l, key, op, params, expire) ==
    (key :> [op |-> op, params |-> params, at |-> now, expire |-> expire]) @@ l

\* the response leaves the handler
Respond(r, status_code, content) ==
    [r EXCEPT !.pc = "done", !.status_code = status_code, !.content = content]

\* an exception no handler catches: the framework answers 500
Unhandled(r) ==
    Respond(r, 500, [detail |-> "Internal Server Error"])

\* the request when the handler reaches cache.get(cache_key)
Arrived(op, params, cache_key) ==
    [NoReq EXCEPT !.op = op, !.params = params, !.cache_key = cache_key,
                  !.at = now,
                  !.written_at = IF cache_key \in DOMAIN log
                                 THEN log[cache_key].at ELSE -1,
                  !.lookups = 1]

\* the request when the handler rejects it before that
Rejected(op, params, detail) ==
    Respond([NoReq EXCEPT !.op = op, !.params = params], 400,
            [detail |-> detail])

\* `if time_range:` ... `time_range.lower() in valid_ranges`
TimeRangeRejected(time_range) ==
    time_range.some /\ time_range.v # "" /\ Lower(time_range.v) \notin valid_ranges

(***************************************************************************)
(* GET /search-api                                                         *)
(***************************************************************************)
SearchApiRequest(query, categories, page, time_range, rerank) ==
    [query |-> query, categories |-> categories, engines |-> Absent,
     language |-> Some("en"), page |-> page, time_range |-> time_range,
     rerank |-> rerank]

\* the request an earlier caller made, and a second one with a colon in it
PriorSearchApiRequest == SearchApiRequest("q", Absent, 1, Absent, FALSE)

PriorColonRequest == SearchApiRequest("a:b", Some("c"), 1, Absent, FALSE)

\* the modelled /search-api requests
SearchApiRequests ==
    { PriorSearchApiRequest,
      PriorColonRequest,
      SearchApiRequest("q", Some("None"), 1, Absent, FALSE),
      SearchApiRequest("a", Some("b:c"), 1, Absent, FALSE),
      SearchApiRequest("q", Absent, 2, Absent, FALSE),
      SearchApiRequest("q", Absent, 1, Some("Day"), TRUE),
      SearchApiRequest("q", Absent, 1, Some("decade"), FALSE) }

\* line 201
SearchApiCacheKey(q) ==
    "search:" \o q.query \o ":" \o StrOpt(q.categories) \o ":"
        \o StrOpt(q.engines) \o ":" \o StrOpt(q.language) \o ":"
        \o ToString(q.page) \o ":" \o StrOpt(q.time_range) \o ":"
        \o StrBool(q.rerank)

\* one day instead of one hour
SearchApiExpireDay == 24 * 60 * 60

\* line 280: expire=3600
SearchApiExpire == 3600

\* what the search backend may answer
BackendAnswers ==
    { [kind |-> "response", status_code |-> 200, results |-> <<>>],
      [kind |-> "response", status_code |-> 200,
       results |-> << [title |-> "A", url |-> "https://a.example/p"],
                      [title |-> "C", url |-> "https://b.example/q"] >>],
      [kind |-> "response", status_code |-> 500, results |-> <<>>],
      [kind |-> "RequestError", status_code |-> 0, results |-> <<>>] }

\* the suggestions the backend returns with the results of a query; those
\* of a and b overlap
BackendSuggestions(query) ==
    CASE query = "a" -> [i \in 1 .. MaxSuggestions |-> "s" \o ToString(i)]
      [] query = "b" -> [i \in 1 .. MaxSuggestions |->
                            "s" \o ToString(i + MaxSuggestions - 2)]
      [] OTHER -> <<"s1">>

\* the backend finds nothing under the filler query z
BackendAnswersFor(query) ==
    IF query = "z"
    THEN { [kind |-> "response", status_code |-> 200, results |-> <<>>,
            suggestions |-> <<>>] }
    ELSE { [kind |-> answer.kind, status_code |-> answer.status_code,
            results |-> answer.results,
            suggestions |-> IF answer.results # <<>>
                            THEN BackendSuggestions(query) ELSE <<>>] :
              answer \in BackendAnswers }

\* lines 284-289: the except clauses around the handler body
SearchApiExcept(exc) ==
    CASE exc.kind = "HTTPStatusError" ->
            [status_code |-> exc.status_code, detail |-> "SearXNG error"]
      [] exc.kind = "RequestError" ->
            [status_code |-> 503, detail |-> "Cannot connect to SearXNG"]
      [] OTHER ->
            [status_code |-> 500, detail |-> "Internal error"]

SearchApiError(r, exc) ==
    Respond(r, SearchApiExcept(exc).status_code,
            [detail |-> SearchApiExcept(exc).detail])

\* lines 236-277: the response built from the backend's data
SearchApiResults(q, results) ==
    [query |-> q.query, number_of_results |-> Len(results), results |-> results]

\* lines 200-232: a request arrives; cache lookup, validation, the backend call
SearchApiArrives ==
    /\ req.pc = "idle"
    /\ \E q \in SearchApiRequests :
          LET r0 == Arrived("search_api", q, SearchApiCacheKey(q))
          IN  IF ~store_up
              THEN req' = Unhandled([r0 EXCEPT !.cache_failed = TRUE])
              ELSE LET cached_result == CacheGet(cache, r0.cache_key)
                   IN  IF cached_result # None
                       THEN req' = Respond([r0 EXCEPT !.hit = TRUE], 200,
                                           cached_result)
                       ELSE IF TimeRangeRejected(q.time_range)
                       THEN req' = SearchApiError(r0, [kind |-> "HTTPException",
                                                       status_code |-> 400])
                       ELSE req' = [r0 EXCEPT !.pc = "backend", !.work = 1]
    /\ UNCHANGED <<run, endpoint, sf, cache, now, store_up, log, ranker, stealth_client, callers>>

\* variant: the error answer of the backend is stored under the key as well
SearchApiBackendCompletesCachingErrors ==
    /\ req.pc = "backend"
    /\ req.op = "search_api"
    /\ \E answer \in BackendAnswers :
          IF answer.kind = "RequestError"
          THEN /\ req' = SearchApiError(req, answer)
               /\ UNCHANGED <<cache, log>>
          ELSE LET results == SearchApiResults(req.params, answer.results)
               IN  /\ cache' = CacheSet(cache, req.cache_key, results,
                                        SearchApiExpire)
                   /\ log' = Logged(log, req.cache_key, req.op, req.params,
                                    SearchApiExpire)
                   /\ req' = IF answer.status_code # 200
                             THEN SearchApiError(req,
                                      [kind |-> "HTTPStatusError",
                                       status_code |-> answer.status_code])
                             ELSE Respond([req EXCEPT !.cache_writes = @ + 1],
                                          200, results)
    /\ UNCHANGED <<run, endpoint, sf, now, store_up, ranker, stealth_client, callers>>

\* lines 232-289: the backend answered or the connection failed; the results
\* are cleaned, reranked, cached and sent
SearchApiBackendCompletes ==
    /\ req.pc = "backend"
    /\ req.op = "search_api"
    /\ \E answer \in BackendAnswers :
          IF answer.kind = "RequestError"
          THEN /\ req' = SearchApiError(req, answer)
               /\ UNCHANGED <<cache, log>>
          ELSE IF answer.status_code # 200
          THEN /\ req' = SearchApiError(req, [kind |-> "HTTPStatusError",
                                              status_code |-> answer.status_code])
               /\ UNCHANGED <<cache, log>>
          ELSE \E ranked \in IF req.params.rerank
                             THEN Rerankings(answer.results)
                             ELSE {answer.results} :
                  LET results == SearchApiResults(req.params, ranked)
                  IN  IF ~store_up
                      THEN /\ req' = SearchApiError([req EXCEPT !.cache_failed = TRUE],
                                                    [kind |-> "Exception",
                                                     status_code |-> 0])
                           /\ UNCHANGED <<cache, log>>
                      ELSE /\ cache' = CacheSet(cache, req.cache_key, results,
                                                SearchApiExpire)
                           /\ log' = Logged(log, req.cache_key, req.op, req.params,
                                            SearchApiExpire)
                           /\ req' = Respond([req EXCEPT !.cache_writes = @ + 1],
                                             200, results)
    /\ UNCHANGED <<run, endpoint, sf, now, store_up, ranker, stealth_client, callers>>

(***************************************************************************)
(* GET /search-and-fetch, as a call: from the endpoint or from             *)
(* process_single_query of /deep-research                                  *)
(***************************************************************************)
SFRequest(query, num_results, max_content_length, time_range, rerank, stealth_mode, auto_bypass) ==
    [query |-> query, num_results |-> num_results,
     categories |-> Some("general"), language |-> Some("en"),
     format |-> "markdown", max_content_length |-> max_content_length,
     time_range |-> time_range, rerank |-> rerank,
     stealth_mode |-> stealth_mode, auto_bypass |-> auto_bypass]

\* the modelled requests: the one an earlier caller made, and others that
\* differ from it in one parameter
CachedSFRequests ==
    { PriorRequest,
      SFRequest("q", 1, 100000, Absent, FALSE, "off", TRUE),
      SFRequest("q", 1, 30000, Absent, FALSE, "off", FALSE),
      SFRequest("q", 2, 100000, Absent, FALSE, "off", FALSE),
      SFRequest("q", 1, 100000, Absent, FALSE, "low", FALSE),
      SFRequest("q", 1, 100000, Some("decade"), FALSE, "off", FALSE) }

\* line 807: expire=3600
SearchAndFetchExpire == 3600

\* a call of search_and_fetch: where it stands, what it has done
SFCall(q) ==
    [pc |-> "searching", params |-> q, cache_key |-> SFCacheKey(q),
     top_results |-> <<>>, suggestions |-> <<>>, content |-> None,
     exc |-> [kind |-> "none", status_code |-> 0],
     hit |-> FALSE, wrote |-> FALSE, work |-> 0, cache_failed |-> FALSE]

SFCallRaises(call, exc) ==
    [call EXCEPT !.pc = "raised",
                 !.exc = [kind |-> "HTTPException",
                          status_code |-> SearchAndFetchExcept(exc).status_code]]

\* the stored response is found and the handler goes on to search
SearchAndFetchBeginNoReturn(q) ==
    LET call == SFCall(q)
    IN  IF ~store_up
        THEN [call EXCEPT !.pc = "raised", !.cache_failed = TRUE,
                          !.exc = [kind |-> "Exception", status_code |-> 500]]
        ELSE LET cached_result == CacheGet(cache, call.cache_key)
             IN  IF TimeRangeRejected(q.time_range)
                 THEN SFCallRaises(call, [kind |-> "HTTPException",
                                          status_code |-> 400])
                 ELSE [call EXCEPT !.work = 1, !.hit = cached_result # None,
                                   !.content = cached_result]

\* lines 579-608: cache lookup, validation, the search call
SearchAndFetchBegin(q) ==
    LET call == SFCall(q)
    IN  IF ~store_up
        THEN [call EXCEPT !.pc = "raised", !.cache_failed = TRUE,
                          !.exc = [kind |-> "Exception", status_code |-> 500]]
        ELSE LET cached_result == CacheGet(cache, call.cache_key)
             IN  IF cached_result # None
                 THEN [call EXCEPT !.pc = "returned", !.hit = TRUE,
                                   !.content = cached_result]
                 ELSE IF TimeRangeRejected(q.time_range)
                 THEN SFCallRaises(call, [kind |-> "HTTPException",
                                          status_code |-> 400])
                 ELSE [call EXCEPT !.work = 1]

\* lines 606-636: the search answered; rerank, cut, fan out
SearchAndFetchSearched(call, answer, ranked) ==
    IF answer.kind = "RequestError"
    THEN SFCallRaises(call, answer)
    ELSE IF answer.status_code # 200
    THEN SFCallRaises(call, [kind |-> "HTTPStatusError",
                             status_code |-> answer.status_code])
    ELSE LET top_results == Take(ranked, call.params.num_results)
         IN  IF top_results = <<>>
             THEN [call EXCEPT !.pc = "returned",
                               !.content = NoResultsResponse(call)]
             ELSE [call EXCEPT !.pc = "fetching", !.top_results = top_results,
                               !.suggestions = answer.suggestions,
                               !.work = @ + Len(top_results)]

\* lines 786-809: the fan-out is back; the response is built and cached
SearchAndFetchFetched(call, fetched_results) ==
    IF ~store_up
    THEN SFCallRaises([call EXCEPT !.cache_failed = TRUE],
                      [kind |-> "Exception", status_code |-> 0])
    ELSE [call EXCEPT !.pc = "returned", !.wrote = TRUE,
                      !.content = FinalResponse(call, fetched_results)]

\* the advanced_fetch run behind a fetched target
FetchedRun(result, stealth_mode) ==
    [NoRun EXCEPT !.pc = "returned", !.url = result.url,
                  !.stealth_mode = stealth_mode, !.html = "article",
                  !.status_code = 200, !.final_url = result.url,
                  !.fetch_method = IF Lower(stealth_mode) = "off" THEN "standard"
                                   ELSE StealthMethod(stealth_mode)]

\* the entries fetch_single_url may end with for a target
FetchedEntries(result, stealth_mode) ==
    { SuccessEntry(result, FetchedRun(result, stealth_mode), "trafilatura"),
      ErrorEntry(result, "Stealth fetch failed") }

\* what gather may hand back for the targets
EntryLists(top_results, stealth_mode) ==
    { fetched_results \in [1 .. Len(top_results) ->
            UNION { FetchedEntries(top_results[i], stealth_mode) :
                        i \in 1 .. Len(top_results) }] :
        \A i \in 1 .. Len(top_results) :
            fetched_results[i] \in FetchedEntries(top_results[i], stealth_mode) }

\* the orders in which the results may reach the cut
Ranked(rerank, results) ==
    IF rerank THEN Rerankings(results) ELSE {results}

\* the cache and its log after a step of a search_and_fetch call
CacheAfter(before, call) ==
    IF call.wrote /\ ~before.wrote
    THEN CacheSet(cache, call.cache_key, call.content, SearchAndFetchExpire)
    ELSE cache

LogAfter(before, call) ==
    IF call.wrote /\ ~before.wrote
    THEN Logged(log, call.cache_key, "search_and_fetch", call.params,
                SearchAndFetchExpire)
    ELSE log

\* the endpoint's request after a step of its call
SFAnswer(r, call) ==
    LET r1 == [r EXCEPT !.calls = <<call>>, !.hit = call.hit,
                        !.work = call.work,
                        !.cache_failed = call.cache_failed,
                        !.cache_writes = IF call.wrote THEN 1 ELSE 0]
    IN  CASE call.pc = "returned" -> Respond(r1, 200, call.content)
          [] call.pc = "raised" ->
                IF call.exc.kind = "HTTPException"
                THEN Respond(r1, call.exc.status_code, [detail |-> "Internal error"])
                ELSE Unhandled(r1)
          [] OTHER -> [r1 EXCEPT !.pc = "working"]

\* lines 578-608: a request arrives
SearchAndFetchArrives ==
    /\ req.pc = "idle"
    /\ \E q \in CachedSFRequests :
          req' = SFAnswer(Arrived("search_and_fetch", q, SFCacheKey(q)),
                          SearchAndFetchBegin(q))
    /\ UNCHANGED <<run, endpoint, sf, cache, now, store_up, log, ranker, stealth_client, callers>>

\* lines 606-636: the search answered
SearchAndFetchSearchCompletes ==
    /\ req.pc = "working"
    /\ req.op = "search_and_fetch"
    /\ req.calls[1].pc = "searching"
    /\ \E answer \in BackendAnswersFor(req.params.query) :
          \E ranked \in Ranked(req.params.rerank, answer.results) :
              req' = SFAnswer(req, SearchAndFetchSearched(req.calls[1], answer,
                                                          ranked))
    /\ UNCHANGED <<run, endpoint, sf, cache, now, store_up, log, ranker, stealth_client, callers>>

\* lines 786-816: the fan-out is back
SearchAndFetchFetchesComplete ==
    /\ req.pc = "working"
    /\ req.op = "search_and_fetch"
    /\ req.calls[1].pc = "fetching"
    /\ \E fetched_results \in EntryLists(req.calls[1].top_results,
                                         req.params.stealth_mode) :
          LET call == SearchAndFetchFetched(req.calls[1], fetched_results)
          IN  /\ req' = SFAnswer(req, call)
              /\ cache' = CacheAfter(req.calls[1], call)
              /\ log' = LogAfter(req.calls[1], call)
    /\ UNCHANGED <<run, endpoint, sf, now, store_up, ranker, stealth_client, callers>>

(***************************************************************************)
(* GET /deep-research                                                      *)
(***************************************************************************)
\* str.strip() on the pieces between the commas of `queries`
Strip(s) ==
    CASE s = " a " -> "a"
      [] s = " " -> ""
      [] OTHER -> s

\* line 853: queries.split(",") is given as its pieces; strip, drop the empty
RECURSIVE ParseQueries(_)
ParseQueries(pieces) ==
    IF pieces = <<>> THEN <<>>
    ELSE IF Strip(Head(pieces)) # ""
         THEN <<Strip(Head(pieces))>> \o ParseQueries(Tail(pieces))
         ELSE ParseQueries(Tail(pieces))

\* the order of str on the modelled queries
StrRank(q) ==
    CASE q = "a" -> 1
      [] q = "b" -> 2
      [] OTHER -> 3

RECURSIVE Insert(_, _)
Insert(q, sorted_list) ==
    IF sorted_list = <<>> THEN <<q>>
    ELSE IF StrRank(q) <= StrRank(Head(sorted_list))
         THEN <<q>> \o sorted_list
         ELSE <<Head(sorted_list)>> \o Insert(q, Tail(sorted_list))

RECURSIVE Sorted(_)
\* sorted(query_list)
Sorted(query_list) ==
    IF query_list = <<>> THEN <<>>
    ELSE Insert(Head(query_list), Sorted(Tail(query_list)))

RECURSIVE Join(_, _)
\* sep.join(items)
Join(sep, items) ==
    IF items = <<>> THEN ""
    ELSE IF Len(items) = 1 THEN Head(items)
    ELSE Head(items) \o sep \o Join(sep, Tail(items))

RECURSIVE Sum(_)
Sum(numbers) ==
    IF numbers = <<>> THEN 0 ELSE Head(numbers) + Sum(Tail(numbers))

\* dict.get(key, default)
Get(d, key, default) == IF key \in DOMAIN d THEN d[key] ELSE default

Repeat(x, n) == [i \in 1 .. n |-> x]

DRRequest(queries, breadth, include_suggestions, stealth_mode, auto_bypass) ==
    [queries |-> queries, breadth |-> breadth, time_range |-> Absent,
     max_content_length |-> 30000, include_suggestions |-> include_suggestions,
     stealth_mode |-> stealth_mode, auto_bypass |-> auto_bypass]

\* the request an earlier caller made
PriorDRRequest == DRRequest(<<"a", "b">>, 1, TRUE, "off", FALSE)

\* the modelled /deep-research requests: queries as the pieces between commas
DRRequests ==
    { PriorDRRequest,
      DRRequest(<<"b", "a">>, 1, TRUE, "off", FALSE),
      DRRequest(<<" a ", "", "b">>, 1, TRUE, "off", FALSE),
      DRRequest(<<"a", "b">>, 1, FALSE, "off", FALSE),
      DRRequest(<<"a", "b">>, 1, TRUE, "off", TRUE),
      DRRequest(<<"a", "b">>, 2, TRUE, "off", FALSE),
      DRRequest(<<"a">>, 1, TRUE, "OFF", FALSE),
      DRRequest(<<"a">>, 1, TRUE, "max", FALSE),
      DRRequest(<<"">>, 1, TRUE, "off", FALSE),
      DRRequest(<<" ", "">>, 1, TRUE, "off", FALSE),
      DRRequest(Repeat("z", 10), 1, TRUE, "off", FALSE),
      DRRequest(<<"z", " ">> \o Repeat("z", 9), 1, TRUE, "off", FALSE),
      DRRequest(Repeat("z", 11), 1, TRUE, "off", FALSE) }

\* the key stamped with the time of the request
DeepResearchCacheKeyStamped(q) ==
    "deep_research:" \o Join(",", Sorted(ParseQueries(q.queries))) \o ":"
        \o ToString(q.breadth) \o ":" \o StrOpt(q.time_range) \o ":"
        \o ToString(q.max_content_length) \o ":" \o q.stealth_mode \o ":"
        \o ToString(now)

\* line 870
DeepResearchCacheKey(q) ==
    "deep_research:" \o Join(",", Sorted(ParseQueries(q.queries))) \o ":"
        \o ToString(q.breadth) \o ":" \o StrOpt(q.time_range) \o ":"
        \o ToString(q.max_content_length) \o ":" \o q.stealth_mode

\* one query too few is let through
TooManyQueriesFromTen(query_list) == Len(query_list) >= 10

\* line 858
TooManyQueries(query_list) == Len(query_list) > 10

\* the hour of /search-and-fetch
DeepResearchExpireHour == SearchAndFetchExpire

\* line 956: expire=1800
DeepResearchExpire == 1800

\* lines 881-892: the search_and_fetch call of process_single_query
ResearchCall(q, query) ==
    SFRequest(query, q.breadth, q.max_content_length, q.time_range, TRUE,
              q.stealth_mode, q.auto_bypass)

\* variant: the exception of the call leaves process_single_query
ProcessSingleQueryNoCatch(call) ==
    IF call.pc = "returned"
    THEN [query |-> call.params.query, status |-> "success",
          num_results |-> Get(call.content, "num_results_found", 0),
          successful_fetches |-> Get(call.content, "successful_fetches", 0),
          results |-> Get(call.content, "results", <<>>),
          suggestions |-> Get(call.content, "suggestions", <<>>),
          fetch_options |-> Get(call.content, "fetch_options", None)]
    ELSE [query |-> call.params.query, status |-> "raised",
          error |-> ToString(call.exc.status_code),
          num_results |-> 0, results |-> <<>>, suggestions |-> <<>>]

\* lines 877-913: what process_single_query returns for its call
ProcessSingleQuery(call) ==
    IF call.pc = "returned"
    THEN [query |-> call.params.query, status |-> "success",
          num_results |-> Get(call.content, "num_results_found", 0),
          successful_fetches |-> Get(call.content, "successful_fetches", 0),
          results |-> Get(call.content, "results", <<>>),
          suggestions |-> Get(call.content, "suggestions", <<>>),
          fetch_options |-> Get(call.content, "fetch_options", None)]
    ELSE [query |-> call.params.query, status |-> "error",
          error |-> ToString(call.exc.status_code),
          num_results |-> 0, results |-> <<>>, suggestions |-> <<>>]

RECURSIVE AllSuggestions(_)
\* lines 926-928: the suggestions of every entry, one list after the other
AllSuggestions(query_results) ==
    IF query_results = <<>> THEN <<>>
    ELSE Get(Head(query_results), "suggestions", <<>>)
            \o AllSuggestions(Tail(query_results))

Range(seq) == { seq[i] : i \in 1 .. Len(seq) }

Reverse(seq) == [i \in 1 .. Len(seq) |-> seq[Len(seq) + 1 - i]]

\* every suggestion the backend may return, in the order of their numbers
SuggestionUniverse ==
    [i \in 1 .. 2 * MaxSuggestions |-> "s" \o ToString(i)]

\* list(set(items)): every element once, in the order of the hash table,
\* which differs from process to process
ListOfSet(items) ==
    { SelectSeq(SuggestionUniverse, LAMBDA x : x \in Range(items)),
      SelectSeq(Reverse(SuggestionUniverse), LAMBDA x : x \in Range(items)) }

\* variant: the lists are joined and cut, duplicates and all
UniqueSuggestionsNoSet(all_suggestions) ==
    { Take(all_suggestions, 20) }

\* line 929: list(set(all_suggestions))[:20]
UniqueSuggestions(all_suggestions) ==
    { Take(l, 20) : l \in ListOfSet(all_suggestions) }

\* variant: the queries are counted before the empty pieces are dropped
ResearchResponseRawCount(q, query_list, query_results, unique_suggestions) ==
    LET n == Len(query_results)
    IN  [research_summary |->
            [total_queries |-> Len(q.queries),
             successful_queries |->
                Cardinality({i \in 1 .. n : query_results[i].status = "success"}),
             failed_queries |->
                Cardinality({i \in 1 .. n : query_results[i].status = "error"}),
             total_results_found |->
                Sum([i \in 1 .. n |-> query_results[i].num_results]),
             total_successful_fetches |->
                Sum([i \in 1 .. n |->
                        IF query_results[i].status = "success"
                        THEN query_results[i].successful_fetches ELSE 0]),
             time_range_filter |-> StrOpt(q.time_range),
             breadth_per_query |-> q.breadth,
             fetch_options |-> [stealth_mode |-> q.stealth_mode,
                                auto_bypass |-> q.auto_bypass]],
         queries |-> query_list,
         query_results |-> query_results,
         all_suggestions |-> IF q.include_suggestions
                             THEN unique_suggestions ELSE <<>>]

\* lines 919-953
ResearchResponse(q, query_list, query_results, unique_suggestions) ==
    LET n == Len(query_results)
    IN  [research_summary |->
            [total_queries |-> Len(query_list),
             successful_queries |->
                Cardinality({i \in 1 .. n : query_results[i].status = "success"}),
             failed_queries |->
                Cardinality({i \in 1 .. n : query_results[i].status = "error"}),
             total_results_found |->
                Sum([i \in 1 .. n |-> query_results[i].num_results]),
             total_successful_fetches |->
                Sum([i \in 1 .. n |->
                        IF query_results[i].status = "success"
                        THEN query_results[i].successful_fetches ELSE 0]),
             time_range_filter |-> StrOpt(q.time_range),
             breadth_per_query |-> q.breadth,
             fetch_options |-> [stealth_mode |-> q.stealth_mode,
                                auto_bypass |-> q.auto_bypass]],
         queries |-> query_list,
         query_results |-> query_results,
         all_suggestions |-> IF q.include_suggestions
                             THEN unique_suggestions ELSE <<>>]

DeepResearchError(r) ==
    Respond(r, 500, [detail |-> "Deep research failed"])

\* what the request has started through its calls
CallsWork(calls) == Sum([i \in 1 .. Len(calls) |-> calls[i].work])

\* lines 852-917: a request arrives; parsing, validation, cache lookup, and
\* one search_and_fetch call per query, each up to its first await
DeepResearchArrives ==
    /\ req.pc = "idle"
    /\ \E q \in DRRequests :
          LET query_list == ParseQueries(q.queries)
              r0 == Arrived("deep_research", q, DeepResearchCacheKey(q))
          IN  IF query_list = <<>>
              THEN req' = Rejected("deep_research", q, "No valid queries provided")
              ELSE IF TooManyQueries(query_list)
              THEN req' = Rejected("deep_research", q, "Maximum 10 queries allowed")
              ELSE IF Lower(q.stealth_mode) \notin valid_stealth_modes
              THEN req' = Rejected("deep_research", q, "Invalid stealth_mode")
              ELSE IF ~store_up
              THEN req' = Unhandled([r0 EXCEPT !.cache_failed = TRUE])
              ELSE LET cached_result == CacheGet(cache, r0.cache_key)
                       calls == [i \in 1 .. Len(query_list) |->
                                    SearchAndFetchBegin(
                                        ResearchCall(q, query_list[i]))]
                   IN  IF cached_result # None
                       THEN req' = Respond([r0 EXCEPT !.hit = TRUE], 200,
                                           cached_result)
                       ELSE req' = [r0 EXCEPT !.pc = "working", !.calls = calls,
                                              !.lookups = 1 + Len(calls),
                                              !.work = CallsWork(calls)]
    /\ UNCHANGED <<run, endpoint, sf, cache, now, store_up, log, ranker, stealth_client, callers>>

\* lines 606-636 inside a query's call: its search answered
ResearchSearchCompletes ==
    /\ req.pc = "working"
    /\ req.op = "deep_research"
    /\ \E i \in 1 .. Len(req.calls) :
          /\ req.calls[i].pc = "searching"
          /\ \E answer \in BackendAnswersFor(req.calls[i].params.query) :
                \E ranked \in Ranked(TRUE, answer.results) :
                    LET calls == [req.calls EXCEPT
                                    ![i] = SearchAndFetchSearched(@, answer, ranked)]
                    IN  req' = [req EXCEPT !.calls = calls,
                                           !.work = CallsWork(calls)]
    /\ UNCHANGED <<run, endpoint, sf, cache, now, store_up, log, ranker, stealth_client, callers>>

\* lines 786-809 inside a query's call: its fan-out is back, its response is
\* cached under the call's own key
ResearchFetchesComplete ==
    /\ req.pc = "working"
    /\ req.op = "deep_research"
    /\ \E i \in 1 .. Len(req.calls) :
          /\ req.calls[i].pc = "fetching"
          /\ \E fetched_results \in EntryLists(req.calls[i].top_results,
                                               req.params.stealth_mode) :
                LET call == SearchAndFetchFetched(req.calls[i], fetched_results)
                IN  /\ req' = [req EXCEPT !.calls[i] = call]
                    /\ cache' = CacheAfter(req.calls[i], call)
                    /\ log' = LogAfter(req.calls[i], call)
    /\ UNCHANGED <<run, endpoint, sf, now, store_up, ranker, stealth_client, callers>>

\* lines 917-961: every query's task is done; gather hands back the entries,
\* or the exception of a task, which the handler's except clause turns into
\* 500; the response is compiled, cached and sent
DeepResearchGatherReturns ==
    /\ req.pc = "working"
    /\ req.op = "deep_research"
    /\ \A i \in 1 .. Len(req.calls) : req.calls[i].pc \in {"returned", "raised"}
    /\ \E unique_suggestions \in
            UniqueSuggestions(AllSuggestions(
                [i \in 1 .. Len(req.calls) |-> ProcessSingleQuery(req.calls[i])])) :
       LET query_list == ParseQueries(req.params.queries)
           query_results == [i \in 1 .. Len(req.calls) |->
                                ProcessSingleQuery(req.calls[i])]
           final_response == ResearchResponse(req.params, query_list,
                                              query_results, unique_suggestions)
       IN  IF \E i \in 1 .. Len(query_results) :
                    query_results[i].status = "raised"
           THEN /\ req' = DeepResearchError(req)
                /\ UNCHANGED <<cache, log>>
           ELSE IF ~store_up
           THEN /\ req' = DeepResearchError([req EXCEPT !.cache_failed = TRUE])
                /\ UNCHANGED <<cache, log>>
           ELSE /\ cache' = CacheSet(cache, req.cache_key, final_response,
                                     DeepResearchExpire)
                /\ log' = Logged(log, req.cache_key, req.op, req.params,
                                 DeepResearchExpire)
                /\ req' = Respond([req EXCEPT !.cache_writes = @ + 1], 200,
                                  final_response)
    /\ UNCHANGED <<run, endpoint, sf, now, store_up, ranker, stealth_client, callers>>

(***************************************************************************)
(* GET /crawl-site                                                         *)
(***************************************************************************)
CrawlRequest(start_url, max_pages, include_links, stealth_mode) ==
    [start_url |-> start_url, max_pages |-> max_pages, max_depth |-> 2,
     format |-> "markdown", include_links |-> include_links,
     include_images |-> TRUE, url_patterns |-> Absent,
     exclude_patterns |-> Absent, stealth_mode |-> stealth_mode,
     obey_robots |-> TRUE]

\* the request an earlier caller made
PriorCrawlRequest == CrawlRequest("https://a.example/p", 50, TRUE, "off")

\* the modelled /crawl-site requests
CrawlRequests ==
    { PriorCrawlRequest,
      CrawlRequest("https://a.example/p", 50, FALSE, "off"),
      CrawlRequest("https://a.example/p", 20, TRUE, "off"),
      CrawlRequest("a.example/p", 50, TRUE, "off"),
      CrawlRequest("https://a.example/p", 50, TRUE, "max") }

\* line 1102
CrawlCacheKey(q) ==
    "crawl:" \o q.start_url \o ":" \o ToString(q.max_pages) \o ":"
        \o ToString(q.max_depth) \o ":" \o q.format \o ":"
        \o StrOpt(q.url_patterns) \o ":" \o StrOpt(q.exclude_patterns) \o ":"
        \o q.stealth_mode \o ":" \o StrBool(q.obey_robots)

\* line 1206: expire=1800
CrawlSiteExpire == 1800

\* how the scrapy subprocess may end: a failure, or the pages it wrote
CrawlOutcomes ==
    { [returncode |-> 1, pages |-> <<>>],
      [returncode |-> 0, pages |-> <<>>],
      [returncode |-> 0,
       pages |-> << [url |-> "https://a.example/p", word_count |-> 7] >>] }

\* lines 1190-1203
CrawlResponse(q, pages) ==
    [crawl_summary |-> [start_url |-> q.start_url, pages_crawled |-> Len(pages),
                        max_pages_requested |-> q.max_pages,
                        max_depth |-> q.max_depth, format |-> q.format,
                        stealth_mode |-> q.stealth_mode],
     pages |-> pages,
     total_words |-> Sum([i \in 1 .. Len(pages) |-> pages[i].word_count])]

\* lines 1210-1216
CrawlSiteError(r) ==
    Respond(r, 500, [detail |-> "Crawl failed"])

\* lines 1076-1152: a request arrives; validation, cache lookup, and the
\* crawler is started
CrawlSiteArrives ==
    /\ req.pc = "idle"
    /\ \E q \in CrawlRequests :
          LET parsed == urlparse(q.start_url)
              r0 == Arrived("crawl_site", q, CrawlCacheKey(q))
          IN  IF parsed.scheme = "" \/ parsed.netloc = ""
              THEN req' = Rejected("crawl_site", q, "Invalid URL format")
              ELSE IF Lower(q.stealth_mode) \notin valid_stealth_modes
              THEN req' = Rejected("crawl_site", q, "Invalid stealth_mode")
              ELSE IF ~store_up
              THEN req' = Unhandled([r0 EXCEPT !.cache_failed = TRUE])
              ELSE LET cached_result == CacheGet(cache, r0.cache_key)
                   IN  IF cached_result # None
                       THEN req' = Respond([r0 EXCEPT !.hit = TRUE], 200,
                                           cached_result)
                       ELSE req' = [r0 EXCEPT !.pc = "crawling", !.work = 1]
    /\ UNCHANGED <<run, endpoint, sf, cache, now, store_up, log, ranker, stealth_client, callers>>

\* lines 1152-1216: the crawler is back; its pages are read, the response is
\* compiled, cached and sent
CrawlSiteCompletes ==
    /\ req.pc = "crawling"
    /\ \E outcome \in CrawlOutcomes :
          IF outcome.returncode # 0
          THEN /\ req' = CrawlSiteError(req)
               /\ UNCHANGED <<cache, log>>
          ELSE LET response_data == CrawlResponse(req.params, outcome.pages)
               IN  IF ~store_up
                   THEN /\ req' = CrawlSiteError([req EXCEPT !.cache_failed = TRUE])
                        /\ UNCHANGED <<cache, log>>
                   ELSE /\ cache' = CacheSet(cache, req.cache_key, response_data,
                                             CrawlSiteExpire)
                        /\ log' = Logged(log, req.cache_key, req.op, req.params,
                                         CrawlSiteExpire)
                        /\ req' = Respond([req EXCEPT !.cache_writes = @ + 1],
                                          200, response_data)
    /\ UNCHANGED <<run, endpoint, sf, now, store_up, ranker, stealth_client, callers>>

(***************************************************************************)
(* Time and the cache store                                                *)
(***************************************************************************)
\* half an hour passes
(***************************************************************************)
(* GET /health                                                             *)
(***************************************************************************)
\* what the probe of the search backend may end with: an answer of any
\* status, no connection, no answer within the 5 seconds, any other exception
HealthProbes ==
    { [kind |-> "response", status_code |-> 200],
      [kind |-> "response", status_code |-> 302],
      [kind |-> "response", status_code |-> 503],
      [kind |-> "ConnectError", status_code |-> 0],
      [kind |-> "TimeoutException", status_code |-> 0],
      [kind |-> "Exception", status_code |-> 0] }

\* variant: every answer below 400 counts as up
SearxngStatusBelow400(probe) ==
    IF probe.kind = "response"
    THEN IF probe.status_code < 400 THEN "up" ELSE "down"
    ELSE "down"

\* lines 1222-1227: up on status 200, down otherwise and on any exception
SearxngStatus(probe) ==
    IF probe.kind = "response"
    THEN IF probe.status_code = 200 THEN "up" ELSE "down"
    ELSE "down"

\* lines 1229-1233
HealthResponse(probe) ==
    [status |-> "ok", searxng |-> SearxngStatus(probe),
     searxng_url |-> "http://127.0.0.1:8888"]

\* lines 1221-1224: a request arrives; the backend is probed
HealthCheck ==
    /\ req.pc = "idle"
    /\ req' = [NoReq EXCEPT !.pc = "probing", !.op = "health_check", !.at = now]
    /\ UNCHANGED <<run, endpoint, sf, cache, now, store_up, log, ranker, stealth_client, callers>>

\* variant: the report is stored for half an hour
HealthCheckProbedCached ==
    /\ req.pc = "probing"
    /\ \E probe \in HealthProbes :
          /\ req' = Respond([req EXCEPT !.params = probe], 200,
                            HealthResponse(probe))
          /\ cache' = CacheSet(cache, "health", HealthResponse(probe),
                               CrawlSiteExpire)
    /\ UNCHANGED <<run, endpoint, sf, now, store_up, log, ranker, stealth_client, callers>>

\* lines 1224-1233: the probe ended; the report is sent
HealthCheckProbed ==
    /\ req.pc = "probing"
    /\ \E probe \in HealthProbes :
          req' = Respond([req EXCEPT !.params = probe], 200, HealthResponse(probe))
    /\ UNCHANGED <<run, endpoint, sf, cache, now, store_up, log, ranker, stealth_client, callers>>

Tick ==
    /\ req.pc # "done"
    /\ now < MaxTicks * 1800
    /\ now' = now + 1800
    /\ UNCHANGED <<run, endpoint, sf, cache, store_up, req, log, ranker, stealth_client, callers>>

\* the store stops answering: cache.get and cache.set raise
StoreGoesDown ==
    /\ req.pc # "done"
    /\ store_up
    /\ store_up' = FALSE
    /\ UNCHANGED <<run, endpoint, sf, cache, now, req, log, ranker, stealth_client, callers>>

StoreComesUp ==
    /\ req.pc # "done"
    /\ ~store_up
    /\ store_up' = TRUE
    /\ UNCHANGED <<run, endpoint, sf, cache, now, req, log, ranker, stealth_client, callers>>

(***************************************************************************)
(* What earlier requests left in the cache                                 *)
(***************************************************************************)
PriorHit == [title |-> "A", url |-> "https://a.example/p"]

\* a call of the earlier /deep-research request: it found and fetched A
PriorCall(query) ==
    LET call == [SFCall(ResearchCall(PriorDRRequest, query)) EXCEPT
                    !.top_results = <<PriorHit>>,
                    !.suggestions = BackendSuggestions(query)]
    IN  [call EXCEPT !.pc = "returned", !.wrote = TRUE,
                     !.content = FinalResponse(call,
                        << SuccessEntry(PriorHit, FetchedRun(PriorHit, "off"),
                                        "trafilatura") >>)]

\* the responses the earlier requests were sent
PriorStores ==
    << [op |-> "search_api", params |-> PriorSearchApiRequest,
        key |-> SearchApiCacheKey(PriorSearchApiRequest),
        value |-> SearchApiResults(PriorSearchApiRequest, <<PriorHit>>),
        expire |-> SearchApiExpire],
       [op |-> "search_api", params |-> PriorColonRequest,
        key |-> SearchApiCacheKey(PriorColonRequest),
        value |-> SearchApiResults(PriorColonRequest, <<>>),
        expire |-> SearchApiExpire],
       [op |-> "search_and_fetch", params |-> PriorRequest,
        key |-> SFCacheKey(PriorRequest),
        value |-> PriorResponse,
        expire |-> SearchAndFetchExpire],
       [op |-> "search_and_fetch", params |-> PriorCall("a").params,
        key |-> PriorCall("a").cache_key,
        value |-> PriorCall("a").content,
        expire |-> SearchAndFetchExpire],
       [op |-> "search_and_fetch", params |-> PriorCall("b").params,
        key |-> PriorCall("b").cache_key,
        value |-> PriorCall("b").content,
        expire |-> SearchAndFetchExpire],
       [op |-> "deep_research", params |-> PriorDRRequest,
        key |-> DeepResearchCacheKey(PriorDRRequest),
        value |-> ResearchResponse(PriorDRRequest, <<"a", "b">>,
                    << ProcessSingleQuery(PriorCall("a")),
                       ProcessSingleQuery(PriorCall("b")) >>,
                    Take(SelectSeq(SuggestionUniverse,
                            LAMBDA x : x \in Range(BackendSuggestions("a")
                                                    \o BackendSuggestions("b"))),
                         20)),
        expire |-> DeepResearchExpire],
       [op |-> "crawl_site", params |-> PriorCrawlRequest,
        key |-> CrawlCacheKey(PriorCrawlRequest),
        value |-> CrawlResponse(PriorCrawlRequest, <<>>),
        expire |-> CrawlSiteExpire] >>

RECURSIVE WarmCache(_)
\* the cache once the first n of them are stored
WarmCache(n) ==
    IF n = 0 THEN EmptyCache
    ELSE CacheSet(WarmCache(n - 1), PriorStores[n].key, PriorStores[n].value,
                  PriorStores[n].expire)

RECURSIVE WarmLog(_)
WarmLog(n) ==
    IF n = 0 THEN NoLog
    ELSE Logged(WarmLog(n - 1), PriorStores[n].key, PriorStores[n].op,
                PriorStores[n].params, PriorStores[n].expire)

(***************************************************************************)
(* The process-wide ranker and stealth client                              *)
(***************************************************************************)
\* a module global: the instance it holds (0: None) and how many instances
\* have been constructed for it so far
NoInstance == [instance |-> 0, constructed |-> 0]

\* Ranker(...) or StealthClient(...): a new instance is assigned to the global
Construct(g) ==
    [instance |-> g.constructed + 1, constructed |-> g.constructed + 1]

\* lines 32-37: the global after a call; the call returns its instance
get_ranker(g) == IF g.instance = 0 THEN Construct(g) ELSE g

\* variant: a client is built for every call
get_stealth_client_fresh(g) == Construct(g)

\* lines 39-43: the global after a call; the call returns its instance
get_stealth_client(g) == IF g.instance = 0 THEN Construct(g) ELSE g

\* a request being served: where its coroutine stands, and the instances
\* its calls of get_ranker and get_stealth_client returned
NoCaller == [pc |-> "idle", rankers |-> <<>>, clients |-> <<>>]

NoCallers == [c \in 1 .. MaxCallers |-> NoCaller]

\* line 608: a /search-and-fetch request arrives and awaits the search
CallerSearches ==
    /\ \E c \in 1 .. MaxCallers :
          /\ callers[c].pc = "idle"
          /\ callers' = [callers EXCEPT ![c].pc = "searching"]
    /\ UNCHANGED <<run, endpoint, sf, cache, now, store_up, req, log,
                   ranker, stealth_client>>

\* lines 610-626 and 784-786: the search answered; the results are reranked
\* or not, and the handler awaits its fetch task
CallerReranks ==
    /\ \E c \in 1 .. MaxCallers, rerank \in BOOLEAN :
          /\ callers[c].pc = "searching"
          /\ ranker' = IF rerank THEN get_ranker(ranker) ELSE ranker
          /\ callers' = [callers EXCEPT
                            ![c].pc = "gathering",
                            ![c].rankers = IF rerank
                                           THEN Append(@, ranker'.instance)
                                           ELSE @]
    /\ UNCHANGED <<run, endpoint, sf, cache, now, store_up, req, log,
                   stealth_client>>

\* lines 66-71: the fetch task starts; the first stealth fetch is awaited
CallerFetches ==
    /\ \E c \in 1 .. MaxCallers :
          /\ callers[c].pc = "gathering"
          /\ stealth_client' = get_stealth_client(stealth_client)
          /\ callers' = [callers EXCEPT
                            ![c].pc = "fetching",
                            ![c].clients = Append(@, stealth_client'.instance)]
    /\ UNCHANGED <<run, endpoint, sf, cache, now, store_up, req, log,
                   ranker>>

\* lines 108-116: the page came back blocked; the next level is awaited
CallerEscalates ==
    /\ \E c \in 1 .. MaxCallers :
          /\ callers[c].pc = "fetching"
          /\ stealth_client' = get_stealth_client(stealth_client)
          /\ callers' = [callers EXCEPT
                            ![c].pc = "escalated",
                            ![c].clients = Append(@, stealth_client'.instance)]
    /\ UNCHANGED <<run, endpoint, sf, cache, now, store_up, req, log,
                   ranker>>

\* lines 148-154 and 786-809: the page came back; the response is sent
CallerReturns ==
    /\ \E c \in 1 .. MaxCallers :
          /\ callers[c].pc \in {"fetching", "escalated"}
          /\ callers' = [callers EXCEPT ![c].pc = "done"]
    /\ UNCHANGED <<run, endpoint, sf, cache, now, store_up, req, log,
                   ranker, stealth_client>>

(***************************************************************************)
(* Specification: concurrent requests and the two lazily built globals     *)
(***************************************************************************)
InitSingletons ==
    /\ now = 0
    /\ store_up = TRUE
    /\ req = NoReq
    /\ log = NoLog
    /\ run = NoRun
    /\ endpoint = NoEndpoint
    /\ sf = NoSF
    /\ cache = EmptyCache
    /\ ranker = NoInstance
    /\ stealth_client = NoInstance
    /\ callers = NoCallers

NextSingletons ==
    \/ CallerSearches
    \/ CallerReranks
    \/ CallerFetches
    \/ CallerEscalates
    \/ CallerReturns

SpecSingletons == InitSingletons /\ [][NextSingletons]_vars

(***************************************************************************)
(* Specification: one request to a cached endpoint, against a cold cache   *)
(* or the cache earlier requests left, while time passes; the store is     *)
(* available                                                               *)
(***************************************************************************)
InitCache ==
    /\ now = 0
    /\ store_up = TRUE
    /\ req = NoReq
    /\ run = NoRun
    /\ endpoint = NoEndpoint
    /\ sf = NoSF
    /\ ranker = NoInstance
    /\ stealth_client = NoInstance
    /\ callers = NoCallers
    /\ \E n \in {0, Len(PriorStores)} :
          /\ cache = WarmCache(n)
          /\ log = WarmLog(n)

NextCache ==
    \/ SearchApiArrives
    \/ SearchApiBackendCompletes
    \/ SearchAndFetchArrives
    \/ SearchAndFetchSearchCompletes
    \/ SearchAndFetchFetchesComplete
    \/ DeepResearchArrives
    \/ ResearchSearchCompletes
    \/ ResearchFetchesComplete
    \/ DeepResearchGatherReturns
    \/ CrawlSiteArrives
    \/ CrawlSiteCompletes
    \/ HealthCheck
    \/ HealthCheckProbed
    \/ Tick

SpecCache == InitCache /\ [][NextCache]_vars

(***************************************************************************)
(* Specification: the same, and the store may stop and resume answering    *)
(***************************************************************************)
NextOutage ==
    \/ NextCache
    \/ StoreGoesDown
    \/ StoreComesUp

SpecOutage == InitCache /\ [][NextOutage]_vars

(***************************************************************************)
(* Specification: one request, to /fetch or to /search-and-fetch, with the *)
(* cache store available                                                   *)
(***************************************************************************)
Init ==
    /\ now = 0
    /\ store_up = TRUE
    /\ req = NoReq
    /\ log = NoLog
    /\ run = NoRun
    /\ endpoint = NoEndpoint
    /\ sf = NoSF
    /\ cache \in InitCaches
    /\ ranker = NoInstance
    /\ stealth_client = NoInstance
    /\ callers = NoCallers

Next ==
    \/ FetchUrl
    \/ InitialFetchCompletes
    \/ MediumFetchCompletes
    \/ HighFetchCompletes
    \/ SearchAndFetch
    \/ SearchCompletes
    \/ TaskFetchCompletes
    \/ GatherReturns

Spec == Init /\ [][Next]_vars

(***************************************************************************)
(* Specification: one request to any endpoint, the fetches of /fetch and   *)
(* /search-and-fetch followed one by one, against a cold or a warm cache   *)
(***************************************************************************)
NextAny ==
    \/ /\ req.pc = "idle"
       /\ Next
    \/ /\ endpoint.pc = "idle"
       /\ sf.pc = "idle"
       /\ \/ SearchApiArrives
          \/ SearchApiBackendCompletes
          \/ SearchAndFetchArrives
          \/ SearchAndFetchSearchCompletes
          \/ SearchAndFetchFetchesComplete
          \/ DeepResearchArrives
          \/ ResearchSearchCompletes
          \/ ResearchFetchesComplete
          \/ DeepResearchGatherReturns
          \/ CrawlSiteArrives
          \/ CrawlSiteCompletes
          \/ HealthCheck
          \/ HealthCheckProbed

SpecAny == InitCache /\ [][NextAny]_vars

TypeOK ==
    /\ run.pc \in {"idle", "await_initial", "await_medium", "await_high",
                   "returned", "raised"}
    /\ endpoint.pc \in {"idle", "awaiting", "done"}
    /\ sf.pc \in {"idle", "searching", "gathering", "done"}

(***************************************************************************)
(* Vocabulary of the properties                                            *)
(***************************************************************************)
\* off < low < medium < high
LevelRank(level) ==
    CASE level = "off" -> 0
      [] level = "low" -> 1
      [] level = "medium" -> 2
      [] level = "high" -> 3

\* the level a fetch_method names
MethodLevel(fetch_method) ==
    CASE fetch_method = "standard" -> "off"
      [] fetch_method = "stealth_medium_auto" -> "medium"
      [] fetch_method = "stealth_high_auto" -> "high"
      [] OTHER -> Lower(CHOOSE m \in StealthModeInputs :
                            fetch_method = "stealth_" \o m)

\* every advanced_fetch call of the request: the one of /fetch, those of the tasks
AllRuns == {run} \cup { sf.tasks[i].run : i \in 1 .. Len(sf.tasks) }

\* the positions of the escalation fetches of a call
Escalations(r) == 2 .. Len(r.fetches)

\* the fetch got a body, and the classifier's verdict on it
GotBody(f) == f.outcome.kind = "response" /\ ~ (f.via = "httpx" /\ f.outcome.status_code >= 400)

Blocked(f) == detect_protection(f.outcome.html).is_blocked

\* the fetch failed at the transport level (exception, or error status from httpx)
Failed(f) == f.outcome.kind # "none" /\ ~ GotBody(f)

\* the requested mode is spelled as the code spells it, in lower case
Canonical(r) == r.stealth_mode \in valid_stealth_modes

\* the method recorded for the first fetch of a call
InitialMethod(r) ==
    IF r.stealth_mode = "off" THEN "standard" ELSE "stealth_" \o r.stealth_mode

(***************************************************************************)
(* C1..C8: the escalation of advanced_fetch                                *)
(***************************************************************************)
\* C1: a call issues at most two fetches after the first one, at most one of
\* them at medium and at most one at high, none at another level, and it has
\* returned once the third fetch has completed.
C1_BoundedEscalation ==
    \A r \in AllRuns :
        /\ Len(r.fetches) <= 3
        /\ \A k \in Escalations(r) : r.fetches[k].level \in {"medium", "high"}
        /\ Cardinality({k \in Escalations(r) : r.fetches[k].level = "medium"}) <= 1
        /\ Cardinality({k \in Escalations(r) : r.fetches[k].level = "high"}) <= 1
        /\ (Len(r.fetches) = 3 /\ r.fetches[3].outcome.kind # "none")
              => r.pc = "returned"

C1_Witness == run.pc = "returned" /\ Len(run.fetches) = 3

\* C2 (as claimed): the levels of the fetches of one call are strictly
\* increasing: every later fetch is at a higher level than every earlier one.
C2_StrictlyIncreasing ==
    \A i, j \in DOMAIN run.fetches :
        i < j => LevelRank(run.fetches[i].level) < LevelRank(run.fetches[j].level)

\* C3 (as claimed): when the first page is not blocked, or auto_bypass is
\* false, or the requested mode is high in any accepted spelling, the call
\* issues exactly one fetch and returns.
C3_SingleFetch ==
    (Len(run.fetches) >= 1 /\ GotBody(run.fetches[1])
        /\ (\/ ~ Blocked(run.fetches[1])
            \/ ~ run.auto_bypass
            \/ Lower(run.stealth_mode) = "high"))
    => (Len(run.fetches) = 1 /\ run.pc = "returned")

\* every escalation attempt of the call got a body that is classified blocked
EscalatedAllBlocked(r) ==
    /\ r.pc = "returned"
    /\ Len(r.fetches) >= 2
    /\ \A k \in Escalations(r) : GotBody(r.fetches[k]) /\ Blocked(r.fetches[k])

\* C4 (as claimed): after escalation attempts that all stayed blocked, the
\* outcome has the html of the first fetch, fetch_method names the last level
\* tried, and protection_info has bypassed = false.  Stated for the lower-case
\* spellings, where the escalation runs as the code intends it.
C4_LastMethodRecorded ==
    (EscalatedAllBlocked(run) /\ Canonical(run)) =>
        /\ run.html = run.fetches[1].outcome.html
        /\ MethodLevel(run.fetch_method) = run.fetches[Len(run.fetches)].level
        /\ "bypassed" \in DOMAIN run.protection_info
        /\ run.protection_info.bypassed = FALSE

\* C4 (amended): after escalation attempts that all stayed blocked, the
\* outcome has the html, status_code and final_url of the first fetch,
\* fetch_method is still the method of the first fetch, and protection_info
\* has no bypassed key.
C4_OriginalOutcomeKept ==
    \A r \in AllRuns :
        EscalatedAllBlocked(r) =>
            /\ r.html = r.fetches[1].outcome.html
            /\ r.status_code = r.fetches[1].outcome.status_code
            /\ r.final_url = r.fetches[1].outcome.url
            /\ r.fetch_method = InitialMethod(r)
            /\ "bypassed" \notin DOMAIN r.protection_info
            /\ "bypass_method" \notin DOMAIN r.protection_info

C4_Witness ==
    /\ EscalatedAllBlocked(run)
    /\ Len(run.fetches) = 3
    /\ run.fetches[3].outcome.html # run.fetches[1].outcome.html

\* C5: an escalation attempt whose body is classified not blocked ends the
\* call: no later fetch exists, the outcome has that attempt's html,
\* status_code and final_url, fetch_method names its level, and
\* protection_info has bypassed = true and bypass_method naming that level.
C5_BypassKept ==
    \A r \in AllRuns :
        \A k \in Escalations(r) :
            (GotBody(r.fetches[k]) /\ ~ Blocked(r.fetches[k])) =>
                /\ r.pc = "returned"
                /\ k = Len(r.fetches)
                /\ r.html = r.fetches[k].outcome.html
                /\ r.status_code = r.fetches[k].outcome.status_code
                /\ r.final_url = r.fetches[k].outcome.url
                /\ MethodLevel(r.fetch_method) = r.fetches[k].level
                /\ r.fetch_method # InitialMethod(r)
                /\ r.protection_info.bypassed = TRUE
                /\ r.protection_info.bypass_method = "stealth_" \o r.fetches[k].level

C5_Witness ==
    /\ run.pc = "returned"
    /\ run.stealth_mode = "low"
    /\ Len(run.fetches) = 2
    /\ run.fetches[2].level = "medium"
    /\ ~ Blocked(run.fetches[2])
    /\ run.html # run.fetches[1].outcome.html

\* C6 (as claimed): the first escalation fetch is at the level immediately
\* above the level of the first fetch, unless the requested level exceeds
\* medium.  Stated for the lower-case spellings, where the escalation runs as
\* the code intends it.
C6_NextLevelUp ==
    (Len(run.fetches) >= 2 /\ Canonical(run)) =>
        \/ LevelRank(run.fetches[2].level) = LevelRank(run.fetches[1].level) + 1
        \/ LevelRank(Lower(run.stealth_mode)) > LevelRank("medium")

\* C6 (amended): the first escalation fetch is at medium when the first fetch
\* was the standard one or the one of stealth_mode "low", and at high
\* otherwise; it is never at low.
C6_MediumThenHigh ==
    \A r \in AllRuns :
        Len(r.fetches) >= 2 =>
            r.fetches[2].level =
                IF InitialMethod(r) \in {"standard", "stealth_low"}
                THEN "medium" ELSE "high"

C6_Witness ==
    /\ Len(run.fetches) >= 2
    /\ run.stealth_mode = "off"
    /\ run.fetches[1].level = "off"
    /\ run.fetches[2].level = "medium"

\* C7: the level named by the fetch_method of a returned outcome is at least
\* the requested level.
C7_MethodAtLeastRequested ==
    \A r \in AllRuns :
        r.pc = "returned" =>
            LevelRank(MethodLevel(r.fetch_method))
                >= LevelRank(Lower(r.stealth_mode))

C7_Witness ==
    /\ run.pc = "returned"
    /\ run.stealth_mode = "medium"
    /\ run.fetch_method = "stealth_high_auto"

FannedOut == sf.tasks # <<>>

\* the fetch or the extraction of the task's target failed
TargetFailed(t) ==
    \/ urlparse(t.result.url).scheme = ""
    \/ urlparse(t.result.url).netloc = ""
    \/ t.run.pc = "raised"
    \/ t.extraction = "raise"

\* C9: the response of a fanned-out request lists one entry per selected
\* search result, entry i being the entry of target i, whatever the order of
\* completion.
C9_InputOrder ==
    (FannedOut /\ sf.pc = "done" /\ sf.status_code = 200) =>
        /\ Len(sf.content.results) = Len(sf.top_results)
        /\ Len(sf.top_results) <= sf.params.num_results
        /\ \A i \in DOMAIN sf.top_results :
              /\ sf.content.results[i].search_result.title = sf.top_results[i].title
              /\ sf.content.results[i] = sf.tasks[i].entry

C9_Witness ==
    /\ sf.pc = "done"
    /\ sf.completed = <<2, 1>>
    /\ sf.content.results[1].fetch_status = "success"
    /\ sf.content.results[2].fetch_status = "success"

\* C10: a target whose fetch or extraction failed yields an entry with
\* fetch_status error and an error detail; no task is lost to an exception,
\* every other target gets the status of its own fetch, and the request ends
\* with a normal response that carries every entry.
C10_Isolation ==
    FannedOut =>
        /\ \A i \in DOMAIN sf.tasks :
              /\ sf.tasks[i].pc \in {"await", "done"}
              /\ sf.tasks[i].pc = "done" =>
                    IF TargetFailed(sf.tasks[i])
                    THEN /\ sf.tasks[i].entry.fetch_status = "error"
                         /\ "fetch_error" \in DOMAIN sf.tasks[i].entry
                    ELSE sf.tasks[i].entry.fetch_status = "success"
        /\ sf.pc = "done" =>
              /\ sf.status_code = 200
              /\ \A i \in DOMAIN sf.tasks :
                    /\ sf.tasks[i].pc = "done"
                    /\ sf.content.results[i] = sf.tasks[i].entry

C10_Witness ==
    /\ sf.pc = "done"
    /\ sf.status_code = 200
    /\ \E i, j \in DOMAIN sf.tasks :
          /\ sf.tasks[i].run.pc = "raised"
          /\ sf.content.results[i].fetch_status = "error"
          /\ sf.content.results[j].fetch_status = "success"

(***************************************************************************)
(* C11: every /search-and-fetch response that carries the two counts,      *)
(* freshly built or taken from the cache, has successful_fetches equal to  *)
(* the number of entries with fetch_status "success", failed_fetches equal *)
(* to the number with fetch_status "error", and the two add up to the      *)
(* length of results.                                                      *)
(***************************************************************************)
CountOf(results, status) ==
    Cardinality({i \in DOMAIN results : results[i].fetch_status = status})

CarriesCounts(content) ==
    /\ "successful_fetches" \in DOMAIN content
    /\ "failed_fetches" \in DOMAIN content

C11_CountsAgree ==
    (sf.pc = "done" /\ sf.status_code = 200 /\ CarriesCounts(sf.content)) =>
        /\ sf.content.successful_fetches = CountOf(sf.content.results, "success")
        /\ sf.content.failed_fetches = CountOf(sf.content.results, "error")
        /\ sf.content.successful_fetches + sf.content.failed_fetches
              = Len(sf.content.results)

\* two results asked for, one found, and it was fetched
C11_Witness ==
    /\ sf.pc = "done"
    /\ sf.status_code = 200
    /\ CarriesCounts(sf.content)
    /\ sf.cache_writes = 1
    /\ sf.params.num_results = 2
    /\ Len(sf.content.results) = 1
    /\ sf.content.successful_fetches = 1
    /\ sf.content.failed_fetches = 0

(***************************************************************************)
(* Vocabulary of the cache properties                                      *)
(***************************************************************************)
\* the request was answered with a stored response
AnsweredFromCache(op) ==
    /\ req.pc = "done"
    /\ req.op = op
    /\ req.hit

\* the parameters of the request that stored the response under the key
StoredFor(key) == log[key].params

(***************************************************************************)
(* C12: two /search-and-fetch requests that differ in any of query,        *)
(* num_results, categories, language, format, max_content_length,          *)
(* time_range, rerank, stealth_mode or auto_bypass have different cache    *)
(* keys: a request is answered from the cache only with a response that    *)
(* was stored for the very same parameter values.                          *)
(***************************************************************************)
C12_NoCollision ==
    AnsweredFromCache("search_and_fetch") =>
        StoredFor(req.cache_key) = req.params

(***************************************************************************)
(* C13: two /deep-research requests that differ in the ordered query list, *)
(* breadth, time_range, max_content_length, include_suggestions,           *)
(* stealth_mode or auto_bypass have different cache keys: a request is     *)
(* answered from the cache only with a response that was stored for the    *)
(* same ordered query list and the same values of the other parameters.    *)
(***************************************************************************)
\* the parameters with the query string replaced by the list it parses to
ResearchParameters(q) ==
    [q EXCEPT !.queries = ParseQueries(q.queries)]

C13_NoCollision ==
    AnsweredFromCache("deep_research") =>
        ResearchParameters(StoredFor(req.cache_key))
            = ResearchParameters(req.params)

(***************************************************************************)
(* C14: the /search-api cache key is injective on (query, categories,      *)
(* engines, language, page, time_range, rerank), values with a ':' or the  *)
(* text 'None' included: a request is answered from the cache only with a  *)
(* response that was stored for the same tuple.                            *)
(***************************************************************************)
C14_Injective ==
    AnsweredFromCache("search_api") =>
        StoredFor(req.cache_key) = req.params

(***************************************************************************)
(* C15: for /search-api, /search-and-fetch, /deep-research and /crawl-site *)
(* the cache key is a function of the parameter values alone: whenever a   *)
(* request, or a search_and_fetch call made for it, carries the parameter  *)
(* values of the request that stored some entry, it computes that entry's  *)
(* key, whatever the time, the cache contents or the requests before.      *)
(***************************************************************************)
SameKeyAsStored(op, params, cache_key) ==
    \A k \in DOMAIN log :
        (log[k].op = op /\ log[k].params = params) => k = cache_key

ClaimedTTL(op) ==
    CASE op = "search_api" -> 3600
      [] op = "search_and_fetch" -> 3600
      [] op = "deep_research" -> 1800
      [] op = "crawl_site" -> 1800

\* the request looked its key up when the entry under it was past its time
Stale(r) ==
    /\ r.lookups >= 1
    /\ r.written_at >= 0
    /\ r.at >= r.written_at + ClaimedTTL(r.op)

\* the entry under the request's key was stored by the request itself
FreshEntry(r) ==
    /\ r.cache_writes = 1
    /\ r.cache_key \in DOMAIN cache
    /\ log[r.cache_key].at >= r.at
    /\ cache[r.cache_key].expire_time > now

(***************************************************************************)
(* C16, as claimed: a cache entry is never returned after its expiry time; *)
(* a request whose key was written more than its TTL ago is handled as a   *)
(* miss, performs the backend work again and writes a fresh entry.         *)
(***************************************************************************)
C16_ExpiredRewritten ==
    /\ req.hit => req.at <= req.written_at + ClaimedTTL(req.op)
    /\ (req.pc = "done" /\ Stale(req)
            /\ req.at > req.written_at + ClaimedTTL(req.op)) =>
          /\ ~req.hit
          /\ req.work >= 1
          /\ FreshEntry(req)

(***************************************************************************)
(* C16, amended: a cache entry is never returned at or after its expiry    *)
(* time.  A request whose key was written at least its TTL ago is handled  *)
(* as a miss: /search-api, /search-and-fetch and /crawl-site start their   *)
(* backend work again, /deep-research starts one search_and_fetch call per *)
(* query again; a fresh entry is written when, and only when, the request  *)
(* ends in a 200 response that carries results.                            *)
(***************************************************************************)
C16_ExpiredIsMiss ==
    /\ req.hit => req.at < req.written_at + ClaimedTTL(req.op)
    /\ Stale(req) =>
          /\ ~req.hit
          /\ IF req.op = "deep_research"
             THEN Len(req.calls) = Len(ParseQueries(req.params.queries))
             ELSE req.work >= 1
          /\ req.pc = "done" =>
                (FreshEntry(req) <=>
                    (req.status_code = 200 /\ "message" \notin DOMAIN req.content))

\* half an hour on, the earlier /deep-research request is repeated: its
\* entry has expired, both of its calls are answered from their own
\* entries, no backend is asked, and a fresh entry is stored
C16_Witness ==
    /\ req.op = "deep_research"
    /\ req.pc = "done"
    /\ Stale(req)
    /\ req.at = 1800
    /\ req.work = 0
    /\ req.status_code = 200
    /\ FreshEntry(req)

(***************************************************************************)
(* C17: on a cache hit each of the four endpoints returns the stored       *)
(* response without calling the backend, fetching or crawling and without  *)
(* writing the cache; on a miss the entry under a key is written only in   *)
(* the step that completes the whole work of the request, or of the        *)
(* search_and_fetch call, that the key belongs to.                         *)
(***************************************************************************)
HitReturnsStored ==
    req.hit =>
        /\ req.pc = "done"
        /\ req.status_code = 200
        /\ req.content = cache[req.cache_key].value
        /\ req.work = 0
        /\ req.cache_writes = 0
        /\ \A i \in DOMAIN req.calls :
              req.calls[i].work = 0 /\ ~req.calls[i].wrote

Written(k) ==
    /\ k \in DOMAIN cache'
    /\ k \notin DOMAIN cache \/ cache'[k] # cache[k]

WriteEndsTheWork ==
    /\ (req'.hit /\ ~req.hit) => cache' = cache
    /\ \A k \in DOMAIN cache' :
          Written(k) =>
              \/ /\ k = req'.cache_key
                 /\ req.pc \in {"backend", "working", "crawling"}
                 /\ req'.pc = "done"
                 /\ req'.status_code = 200
                 /\ ~req'.hit
                 /\ \A i \in DOMAIN req'.calls :
                       req'.calls[i].pc \in {"returned", "raised"}
              \/ \E i \in DOMAIN req'.calls :
                    /\ k = req'.calls[i].cache_key
                    /\ req.calls[i].pc = "fetching"
                    /\ req'.calls[i].pc = "returned"

C17_HitShortCircuits == [] HitReturnsStored /\ [][WriteEndsTheWork]_vars

\* a /search-and-fetch request answered with the stored response
C17_Witness ==
    /\ AnsweredFromCache("search_and_fetch")
    /\ req.status_code = 200
    /\ req.content = PriorResponse
    /\ req.work = 0
    /\ req.cache_writes = 0

(***************************************************************************)
(* C18: every cache write uses the time to live of its endpoint: 3600      *)
(* seconds for /search-api, 3600 for /search-and-fetch, 1800 for           *)
(* /deep-research and 1800 for /crawl-site.                                *)
(***************************************************************************)
C18_TTLPolicy ==
    \A k \in DOMAIN log :
        /\ k \in DOMAIN cache
        /\ log[k].expire = ClaimedTTL(log[k].op)
        /\ cache[k].expire_time = log[k].at + ClaimedTTL(log[k].op)

\* a /deep-research response stored half an hour into the run expires half
\* an hour later, the search_and_fetch response of one of its queries an
\* hour later
C18_Witness ==
    /\ req.op = "deep_research"
    /\ req.pc = "done"
    /\ req.cache_writes = 1
    /\ log[req.cache_key].at = 1800
    /\ cache[req.cache_key].expire_time = 3600
    /\ \E i \in DOMAIN req.calls :
          /\ req.calls[i].wrote
          /\ log[req.calls[i].cache_key].at = 1800
          /\ cache[req.calls[i].cache_key].expire_time = 5400

(***************************************************************************)
(* C19: when the cache store does not answer (cache.get or cache.set       *)
(* raises), every cached endpoint treats the lookup as a miss, does the    *)
(* work and returns the normal response: a request during which a cache    *)
(* operation failed never ends in an error response because of it.         *)
(***************************************************************************)
C19_FailOpen ==
    (req.pc = "done" /\ req.cache_failed) => req.status_code = 200

(***************************************************************************)
(* C20: a /deep-research request whose queries parameter parses to zero    *)
(* queries, or to more than 10, is rejected with status 400 before any     *)
(* cache lookup, search or fetch; a request with 1 to 10 parsed queries    *)
(* passes this check.                                                      *)
(***************************************************************************)
\* the pieces between the commas that are more than blanks
QueryCount(q) ==
    Cardinality({i \in DOMAIN q.queries : q.queries[i] \notin {"", " "}})

C20_QueryCountChecked ==
    (req.op = "deep_research" /\ req.pc # "idle") =>
        IF QueryCount(req.params) = 0 \/ QueryCount(req.params) > 10
        THEN /\ req.pc = "done"
             /\ req.status_code = 400
             /\ req.lookups = 0
             /\ req.work = 0
             /\ req.calls = <<>>
        ELSE \/ req.lookups >= 1
             \/ /\ req.status_code = 400
                /\ req.content.detail = "Invalid stealth_mode"

\* eleven queries are turned away
C20_Witness ==
    /\ req.op = "deep_research"
    /\ req.pc = "done"
    /\ QueryCount(req.params) = 11
    /\ req.status_code = 400
    /\ req.lookups = 0
    /\ cache # EmptyCache

(***************************************************************************)
(* Validation errors of the endpoints                                      *)
(***************************************************************************)
\* a /fetch request that ended at its validation: advanced_fetch was never
\* called for it
FetchRejected == endpoint.pc = "done" /\ run.pc = "idle"

\* C21: a /fetch request whose url has no scheme or no host, or whose
\* stealth_mode is not off/low/medium/high, is answered with status 400, and
\* no fetch is issued for it
C21_Rejected400 ==
    FetchRejected => endpoint.status_code = 400 /\ run.fetches = <<>>

\* a time_range that is given and is none of day/week/month/year in any case
InvalidTimeRange(time_range) ==
    /\ time_range.some
    /\ time_range.v # ""
    /\ Lower(time_range.v) \notin {"day", "week", "month", "year"}

\* C22: a /search-api request whose time_range is given and is not one of
\* day/week/month/year is answered with status 400, and the search backend
\* is never called for it
C22_TimeRange400 ==
    (req.op = "search_api" /\ InvalidTimeRange(req.params.time_range))
        => req.pc = "done" /\ req.status_code = 400 /\ req.work = 0

\* a /search-and-fetch request with an enum parameter outside its values
InvalidEnum(q) ==
    \/ Lower(q.stealth_mode) \notin {"off", "low", "medium", "high"}
    \/ InvalidTimeRange(q.time_range)

\* C23: a /search-and-fetch request with an invalid stealth_mode or an
\* invalid time_range is rejected before any network work: the search
\* backend is not called, no page is fetched, nothing is written to the cache
C23_RejectedEagerly ==
    (sf.pc # "idle" /\ InvalidEnum(sf.params))
        => /\ sf.pc = "done"
           /\ sf.status_code >= 400
           /\ sf.tasks = <<>>
           /\ sf.cache_writes = 0

(***************************************************************************)
(* /deep-research: the report                                              *)
(***************************************************************************)
\* a /deep-research request that passed validation, missed the cache and
\* has been answered
ResearchCompiled ==
    /\ req.op = "deep_research"
    /\ req.pc = "done"
    /\ req.calls # <<>>

\* C24: in a /deep-research request, a query whose pipeline failed yields an
\* entry with status error and no results, the other queries' entries are
\* compiled all the same, and the request is answered with a report, not an
\* error
C24_QueryIsolation ==
    ResearchCompiled =>
        /\ req.status_code = 200
        /\ Len(req.content.query_results) = Len(req.calls)
        /\ \A i \in 1 .. Len(req.calls) :
              LET entry == req.content.query_results[i]
              IN  IF req.calls[i].pc = "raised"
                  THEN /\ entry.status = "error"
                       /\ entry.num_results = 0
                       /\ entry.results = <<>>
                  ELSE /\ entry.status = "success"
                       /\ entry.results = Get(req.calls[i].content, "results", <<>>)

\* one query failed, the other one brought fetched results
C24_Witness ==
    /\ ResearchCompiled
    /\ Len(req.calls) = 2
    /\ req.calls[1].pc = "raised"
    /\ req.content.query_results[1].status = "error"
    /\ req.content.query_results[2].status = "success"
    /\ req.content.query_results[2].results # <<>>

\* a /deep-research request answered with a report, compiled or cached
ResearchAnswered ==
    /\ req.op = "deep_research"
    /\ req.pc = "done"
    /\ req.status_code = 200

\* C25: in every /deep-research response, one served from the cache
\* included, queries and query_results have one entry per query of the
\* request, and entry i is the result of the request's i-th query
C25_CallerOrder ==
    ResearchAnswered =>
        LET query_list == ParseQueries(req.params.queries)
        IN  /\ req.content.queries = query_list
            /\ Len(req.content.query_results) = Len(query_list)
            /\ \A i \in 1 .. Len(query_list) :
                  req.content.query_results[i].query = query_list[i]

C28_HealthNeverFails ==
    (req.op = "health_check" /\ req.pc = "done") =>
        /\ req.status_code = 200
        /\ req.content.status = "ok"
        /\ req.content.searxng \in {"up", "down"}
        /\ (req.params.kind # "response" \/ req.params.status_code # 200)
              => req.content.searxng = "down"

\* the probe was answered with a redirect, and the backend is reported down
C28_Witness ==
    /\ req.op = "health_check"
    /\ req.pc = "done"
    /\ req.params.kind = "response"
    /\ req.params.status_code = 302
    /\ req.content.searxng = "down"

(***************************************************************************)
(* The lazily built globals                                                *)
(***************************************************************************)
\* C29: over any interleaving of concurrent requests, the stealth client
\* and the ranker are each constructed at most once, and every call of
\* get_stealth_client, and of get_ranker, returns the same instance
C29_Singletons ==
    /\ ranker.constructed <= 1
    /\ stealth_client.constructed <= 1
    /\ \A c \in 1 .. MaxCallers :
          /\ \A i \in 1 .. Len(callers[c].rankers) :
                callers[c].rankers[i] = ranker.instance /\ ranker.instance # 0
          /\ \A i \in 1 .. Len(callers[c].clients) :
                callers[c].clients[i] = stealth_client.instance
                    /\ stealth_client.instance # 0

\* two requests in flight at once have both called get_ranker, and both
\* have called get_stealth_client, one of them twice
C29_Witness ==
    \E c, d \in 1 .. MaxCallers :
        /\ c # d
        /\ callers[c].pc = "escalated"
        /\ callers[d].pc = "fetching"
        /\ Len(callers[c].rankers) = 1
        /\ Len(callers[d].rankers) = 1
        /\ Len(callers[c].clients) = 2

(***************************************************************************)
(* Fetches in flight                                                       *)
(***************************************************************************)
\* the fetches a call of advanced_fetch has issued and not yet got back
Outstanding(r) ==
    Cardinality({k \in 1 .. Len(r.fetches) : r.fetches[k].outcome = NoResponse})

\* the fetch tasks of a /search-and-fetch request that are suspended
TasksAwaiting ==
    Cardinality({i \in 1 .. Len(sf.tasks) : sf.tasks[i].pc = "await"})

\* the fetch tasks in flight under the search_and_fetch calls of a request:
\* one per target of every call whose fan-out is out
TasksInFlight(calls) ==
    Sum([i \in 1 .. Len(calls) |->
            IF calls[i].pc = "fetching" THEN Len(calls[i].top_results) ELSE 0])

\* C30: the page-fetch tasks in flight at once are at most num_results (1
\* to 5) within a /search-and-fetch request and at most 10 times breadth
\* (at most 50) within a /deep-research request, and every task has at most
\* one fetch outstanding
C30_BoundedFanOut ==
    /\ \A r \in AllRuns : Outstanding(r) <= 1
    /\ sf.pc # "idle" =>
          /\ TasksAwaiting <= sf.params.num_results
          /\ sf.params.num_results \in 1 .. 5
    /\ req.op = "search_and_fetch" =>
          /\ TasksInFlight(req.calls) <= req.params.num_results
          /\ req.params.num_results \in 1 .. 5
    /\ (req.op = "deep_research" /\ req.calls # <<>>) =>
          /\ TasksInFlight(req.calls) <= Len(req.calls) * req.params.breadth
          /\ Len(req.calls) <= 10
          /\ req.params.breadth \in 1 .. 5
          /\ TasksInFlight(req.calls) <= 50

\* a /deep-research request with the fan-outs of two queries out at once,
\* as many tasks as two queries of its breadth allow
C30_Witness ==
    /\ req.op = "deep_research"
    /\ Len(req.calls) = 2
    /\ req.params.breadth = 2
    /\ TasksInFlight(req.calls) = 4

(***************************************************************************)
(* C31..C34: the classifier and the outcome of advanced_fetch              *)
(***************************************************************************)
\* the bodies the completed fetches of a call brought, in the order fetched
BodiesFetched(r) ==
    LET got == SelectSeq(r.fetches, GotBody)
    IN  [k \in 1 .. Len(got) |-> got[k].outcome.html]

\* the outcome is that of an escalation attempt
BypassResult(r) ==
    r.pc = "returned" /\ r.fetch_method \in {"stealth_medium_auto", "stealth_high_auto"}

\* C31: every body a call retrieved, by its first fetch or by an escalation
\* fetch, has been passed to the classifier before the call issues another
\* fetch or keeps that body, and a body returned as a bypass result has been
\* classified not blocked
C31_ClassifiedFirst ==
    \A r \in AllRuns :
        /\ r.classified = BodiesFetched(r)
        /\ BypassResult(r) =>
              /\ \E k \in 1 .. Len(r.classified) : r.classified[k] = r.html
              /\ ~ detect_protection(r.html).is_blocked

\* three bodies fetched and classified one after the other, the last one kept
C31_Witness ==
    /\ BypassResult(run)
    /\ Len(run.fetches) = 3
    /\ Len(run.classified) = 3
    /\ run.html = run.classified[3]
    /\ run.classified[2] # run.classified[3]

\* an escalation fetch of the call completes with an exception in this step
EscalationFails(before, after) ==
    /\ before.pc \in {"await_medium", "await_high"}
    /\ after # before
    /\ Len(after.fetches) >= Len(before.fetches)
    /\ after.fetches[Len(before.fetches)].outcome.kind \notin {"none", "response"}

\* the step leaves the call running or returned, with the page it had
KeepsOutcome(before, after) ==
    /\ after.pc # "raised"
    /\ after.html = before.html
    /\ after.status_code = before.status_code
    /\ after.final_url = before.final_url
    /\ after.fetch_method = before.fetch_method

FailedEscalationKeepsOutcome ==
    /\ EscalationFails(run, run') => KeepsOutcome(run, run')
    /\ \A i \in 1 .. Len(sf.tasks) :
          (Len(sf'.tasks) = Len(sf.tasks)
              /\ EscalationFails(sf.tasks[i].run, sf'.tasks[i].run))
            => KeepsOutcome(sf.tasks[i].run, sf'.tasks[i].run)

\* a call ends with an exception only through its first fetch
RaisedByFirstFetch ==
    \A r \in AllRuns : r.pc = "raised" => Len(r.fetches) <= 1

\* C32: an exception of an escalation fetch never fails the call and never
\* loses data: the call still returns an outcome, and html, status_code,
\* final_url and fetch_method keep the values they had before that attempt
C32_EscalationFailureKept ==
    [] RaisedByFirstFetch /\ [][FailedEscalationKeepsOutcome]_vars

\* both escalation attempts failed and the call returned the first page
C32_Witness ==
    /\ run.pc = "returned"
    /\ Len(run.fetches) = 3
    /\ run.fetches[2].outcome.kind = "RequestError"
    /\ run.fetches[3].outcome.kind = "RequestError"
    /\ run.html = run.fetches[1].outcome.html
    /\ run.fetch_method = InitialMethod(run)

\* C33: every outcome advanced_fetch returns carries the classifier's
\* verdict of the first page: protection_info is present whatever the
\* verdict is, also when the page is classified not protected
C33_VerdictAttached ==
    \A r \in AllRuns :
        r.pc = "returned" =>
            /\ r.protection_info # None
            /\ r.protection_info.is_blocked
                  = detect_protection(r.fetches[1].outcome.html).is_blocked
            /\ r.protection_info.protections
                  = detect_protection(r.fetches[1].outcome.html).protections

\* protection_info of the outcome says the protection was bypassed
MarkedBypassed(r) ==
    /\ r.protection_info # None
    /\ "bypassed" \in DOMAIN r.protection_info
    /\ r.protection_info.bypassed = TRUE

\* C34: in every outcome advanced_fetch returns, protection_info has
\* bypassed = true exactly when fetch_method is stealth_medium_auto or
\* stealth_high_auto, bypass_method then names the level of fetch_method,
\* and html is the escalated body in that case and the first body otherwise
C34_BypassConsistent ==
    \A r \in AllRuns :
        r.pc = "returned" =>
            /\ MarkedBypassed(r) <=> BypassResult(r)
            /\ BypassResult(r) =>
                  /\ r.protection_info.bypass_method \o "_auto" = r.fetch_method
                  /\ Len(r.fetches) >= 2
                  /\ r.html = r.fetches[Len(r.fetches)].outcome.html
                  /\ "stealth_" \o r.fetches[Len(r.fetches)].level \o "_auto"
                        = r.fetch_method
            /\ ~ BypassResult(r) => r.html = r.fetches[1].outcome.html

\* a call at medium got through at high
C34_Witness ==
    /\ run.pc = "returned"
    /\ run.stealth_mode = "medium"
    /\ Len(run.fetches) = 2
    /\ MarkedBypassed(run)
    /\ run.protection_info.bypass_method = "stealth_high"
    /\ run.html = run.fetches[2].outcome.html
    /\ run.html # run.fetches[1].outcome.html

(***************************************************************************)
(* C35..C37: what the endpoints do to the cache                            *)
(***************************************************************************)
\* the request is one to /search-api or /search-and-fetch
SearchRequest(r) == r.op \in {"search_api", "search_and_fetch"}

\* a step of such a request changes the cache only as it sends a 200
WritesOnlyWithSuccess ==
    (SearchRequest(req') /\ cache' # cache) =>
        /\ req.pc # "done"
        /\ req'.pc = "done"
        /\ req'.status_code = 200

\* such a request that was answered with an error has written nothing
ErrorWroteNothing ==
    (SearchRequest(req) /\ req.pc = "done" /\ req.status_code >= 400) =>
        /\ req.cache_writes = 0
        /\ \A i \in 1 .. Len(req.calls) : ~ req.calls[i].wrote
        /\ req.cache_key \in DOMAIN log => log[req.cache_key].at = req.written_at

\* C35: a /search-api or /search-and-fetch request that ends in an error
\* response, be it a validation error, an error or a connection failure of
\* the search backend, or an internal error, leaves the cache unchanged: no
\* entry is written or replaced for its key
C35_ErrorLeavesCache ==
    [] ErrorWroteNothing /\ [][WritesOnlyWithSuccess]_vars

\* the entry of the key had expired, the backend was asked again and
\* failed, and the old entry is still the one stored
C35_Witness ==
    /\ SearchRequest(req)
    /\ req.pc = "done"
    /\ req.status_code >= 500
    /\ req.work >= 1
    /\ req.written_at >= 0
    /\ req.at > req.written_at
    /\ log[req.cache_key].at = req.written_at
    /\ req.cache_key \in DOMAIN cache

\* the search of the /search-and-fetch request returned at least one result
SearchFound == sf.top_results # <<>>

\* C36: search_and_fetch writes its response to the cache exactly when the
\* search returned at least one result, however many of the fetches failed,
\* all of them included; the response for a search without results is
\* returned without a cache write
C36_WritesWhenFound ==
    sf.pc = "done" =>
        /\ sf.cache_writes <= 1
        /\ SearchFound <=> sf.cache_writes = 1
        /\ SearchFound =>
              /\ sf.status_code = 200
              /\ CacheGet(cache, sf.cache_key) = sf.content
        /\ ~ SearchFound => cache \in InitCaches

\* every fetch of the request failed and its response is stored
C36_Witness ==
    /\ sf.pc = "done"
    /\ Len(sf.top_results) = 2
    /\ sf.content.successful_fetches = 0
    /\ sf.content.failed_fetches = 2
    /\ sf.cache_writes = 1
    /\ CacheGet(cache, sf.cache_key) = sf.content

\* the step belongs to a /fetch or a /health request
FetchOrHealthStep ==
    \/ endpoint' # endpoint
    \/ run' # run
    \/ req'.op = "health_check"

CacheUntouched ==
    FetchOrHealthStep => cache' = cache

\* a /health request has made no lookup and no write, and while a /fetch or
\* a /health request is served the cache is the one the request found
NoCacheUse ==
    /\ req.op = "health_check" =>
          /\ req.lookups = 0
          /\ ~ req.hit
          /\ req.cache_writes = 0
    /\ (req.op = "health_check" \/ endpoint.pc # "idle") =>
          cache \in {WarmCache(0), WarmCache(Len(PriorStores))}

\* C37: /fetch and /health never read and never write the cache: after any
\* such request, successful or failed, every cache entry and its expiry
\* time is unchanged
C37_FetchAndHealthLeaveCache ==
    [] NoCacheUse /\ [][CacheUntouched]_vars

\* a /fetch request was answered while the cache held the earlier
\* requests' entries
C37_Witness ==
    /\ endpoint.pc = "done"
    /\ endpoint.status_code = 200
    /\ Len(run.fetches) >= 2
    /\ cache = WarmCache(Len(PriorStores))
    /\ cache # EmptyCache

====
